---- MODULE Spec2Model ----
(***************************************************************************)
(* Model of the version-state reconciliation and test-matrix planning      *)
(* engine of nvidia-ci:                                                    *)
(*   - workflows/gpu_operator_dashboard/fetch_ci_data.py  (ResultReconciler)*)
(*   - workflows/gpu_operator_versions/update_versions.py (DiffEngine,     *)
(*     CatalogAvailabilityFilter, TestMatrixPlanner)                       *)
(*                                                                         *)
(* Representation of the Python values:                                    *)
(*   - a dotted version string "4.14.1" is the tuple <<4, 14, 1>>;         *)
(*   - gpu_operator_version is [ver, note]: the text before the first "("  *)
(*     (stripped) and the parenthesised rest ("" when there is none);      *)
(*   - prow_job_url is [repo, pr_number, job_name, build_id], the groups   *)
(*     TEST_RESULT_PATH_REGEX extracts from it;                            *)
(*   - job_timestamp is the integer int(job_timestamp);                    *)
(*   - a job history link is a natural number, its rank in string order;   *)
(*   - an insertion-ordered dict is a sequence of <<key, value>> pairs     *)
(*     with distinct keys; a JSON object is a function on its keys;        *)
(*   - Optional[int] is <<>> (None) or <<n>>.                              *)
(***************************************************************************)
EXTENDS Integers, Sequences, FiniteSets, TLC

VARIABLES
    \* merge_bundle_tests / merge_release_tests called on their own
    new_tests, existing_tests, limit, merged_tests, called,
    \* the reconciler run after run: the history file and the last run's inputs
    data_file, existing_results, new_results, bundle_result_limit, runs,
    \* a second copy of the reconciler that is given the batches in the other order
    swapped_file, swapped_results,
    \* update_versions: the version snapshot file, the settings, what the last
    \* run fetched (upstream versions, the catalog's answer) and what it computed
    old_versions, new_versions, ocp_versions, support_matrix, check_catalog,
    catalog, gpu_diffs, filtered_diffs, gpu_catalog_entries, diffs, tests_commands,
    \* history: the component versions the run before the last one rejected
    rejected_before,
    \* the request filter_new_gpu_versions_by_catalog sent to the catalog
    catalog_request,
    \* create_tests_matrix called on its own: its arguments next to diffs and
    \* support_matrix, the set it returns and the sets its three handlers return
    known_ocp_releases, known_gpu_releases, tests_matrix, master_tests, ocp_tests, gpu_tests,
    \* the file save_tests_commands writes, as the list of its lines
    tests_file,
    \* one run of fetch_ci_data for a pull request, build by build: the files
    \* of the pull request in the bucket, the builds of sorted(all_builds) not
    \* yet processed, the batch collected so far and the position of main
    gcs, builds_to_process, results_by_ocp, pc,
    \* fetch_catalog_entries page by page: the catalog's pages and the total
    \* it reports, the versions and platforms asked for, the loop's page
    \* number and list, the pages requested so far and whether it has returned
    catalog_api, normalized_gpu_versions, ocp_versions_set, page, all_entries,
    requested_pages, paging,
    \* get_latest_versions and get_earliest_versions called on their own: the
    \* list and the count given, what each returned, and which were called
    given_versions, given_count, latest_versions, earliest_versions, selecting

vars == <<new_tests, existing_tests, limit, merged_tests, called,
          data_file, existing_results, new_results, bundle_result_limit, runs,
          swapped_file, swapped_results,
          old_versions, new_versions, ocp_versions, support_matrix, check_catalog,
          catalog, gpu_diffs, filtered_diffs, gpu_catalog_entries, diffs,
          tests_commands, rejected_before, catalog_request,
          known_ocp_releases, known_gpu_releases, tests_matrix, master_tests, ocp_tests, gpu_tests,
          tests_file,
          gcs, builds_to_process, results_by_ocp, pc,
          catalog_api, normalized_gpu_versions, ocp_versions_set, page, all_entries,
          requested_pages, paging,
          given_versions, given_count, latest_versions, earliest_versions, selecting>>

fnVars == <<new_tests, existing_tests, limit, merged_tests, called>>
runVars == <<data_file, existing_results, new_results, bundle_result_limit, runs>>
otherVars == <<swapped_file, swapped_results>>
pageVars == <<catalog_api, normalized_gpu_versions, ocp_versions_set, page, all_entries,
              requested_pages, paging>>
selectVars == <<given_versions, given_count, latest_versions, earliest_versions, selecting>>
helperVars == <<pageVars, selectVars>>
versionVars == <<helperVars, old_versions, new_versions, ocp_versions, support_matrix, check_catalog,
                 catalog, gpu_diffs, filtered_diffs, gpu_catalog_entries, diffs,
                 tests_commands, rejected_before, catalog_request,
                 known_ocp_releases, known_gpu_releases, tests_matrix, master_tests, ocp_tests, gpu_tests,
                 tests_file>>
fetchVars == <<gcs, builds_to_process, results_by_ocp, pc>>
plannerVars == <<known_ocp_releases, known_gpu_releases, tests_matrix, master_tests, ocp_tests, gpu_tests,
                 tests_file>>

(***************************************************************************)
(* Bounds of the model                                                     *)
(***************************************************************************)
MaxTs == 2
MaxLen == 2
MaxObs == 3
MaxLimit == 2
MaxRuns == 2

(***************************************************************************)
(* Constants of fetch_ci_data.py                                           *)
(***************************************************************************)
STATUS_SUCCESS == "SUCCESS"
STATUS_FAILURE == "FAILURE"
STATUS_ABORTED == "ABORTED"

None == <<>>

Min(a, b) == IF a <= b THEN a ELSE b

\* the sequences over S of length at most n
SeqsUpTo(S, n) == UNION {[1..k -> S] : k \in 0..n}

Range(s) == {s[i] : i \in 1..Len(s)}

(***************************************************************************)
(* TestResult                                                              *)
(***************************************************************************)
\* semver.VersionInfo.parse accepts major.minor.patch
SemverParses(v) == Len(v) = 3

build_key(result) ==
    <<result.prow_job_url.pr_number, result.prow_job_url.job_name,
      result.prow_job_url.build_id>>

has_exact_versions(result) ==
    /\ SemverParses(result.ocp_full_version)
    /\ SemverParses(result.gpu_operator_version.ver)

\* mutant of get_version_key: the component version is not cut at "("
get_version_key_raw(result) ==
    <<result.ocp_full_version, result.gpu_operator_version>>

get_version_key(result) ==
    <<result.ocp_full_version, result.gpu_operator_version.ver>>

(***************************************************************************)
(* Python list and dict operations                                         *)
(***************************************************************************)
\* d[key] = item on an insertion-ordered dict: an existing key keeps its place
DictSet(d, key, item) ==
    IF \E i \in 1..Len(d) : d[i][1] = key
    THEN [i \in 1..Len(d) |-> IF d[i][1] = key THEN <<key, item>> ELSE d[i]]
    ELSE Append(d, <<key, item>>)

\* d.setdefault(key, []).append(item)
DictAppend(d, key, item) ==
    IF \E i \in 1..Len(d) : d[i][1] = key
    THEN [i \in 1..Len(d) |->
            IF d[i][1] = key THEN <<key, Append(d[i][2], item)>> ELSE d[i]]
    ELSE Append(d, <<key, <<item>> >>)

DictValues(d) == [i \in 1..Len(d) |-> d[i][2]]

\* mutant of InsertNewestFirst: x goes in front of the entries of its timestamp
InsertNewestFirst_unstable(sorted, x) ==
    LET n == Cardinality({i \in 1..Len(sorted) :
                            sorted[i].job_timestamp > x.job_timestamp})
    IN  SubSeq(sorted, 1, n) \o <<x>> \o SubSeq(sorted, n + 1, Len(sorted))

\* one step of the stable descending sort: x, which came after everything in
\* sorted, goes behind the entries whose timestamp is not smaller
InsertNewestFirst(sorted, x) ==
    LET n == Cardinality({i \in 1..Len(sorted) :
                            sorted[i].job_timestamp >= x.job_timestamp})
    IN  SubSeq(sorted, 1, n) \o <<x>> \o SubSeq(sorted, n + 1, Len(sorted))

\* list.sort(key=lambda x: int(x.job_timestamp), reverse=True): stable
RECURSIVE SortNewestFirst(_)
SortNewestFirst(tests) ==
    IF tests = <<>> THEN <<>>
    ELSE InsertNewestFirst(SortNewestFirst(SubSeq(tests, 1, Len(tests) - 1)),
                           tests[Len(tests)])

\* mutant of Truncate: all_tests[-limit:], the oldest entries are kept
Truncate_oldest(all_tests, n) ==
    SubSeq(all_tests, Len(all_tests) - Min(n, Len(all_tests)) + 1, Len(all_tests))

\* all_tests[:limit] for limit >= 0
Truncate(all_tests, n) == SubSeq(all_tests, 1, Min(n, Len(all_tests)))

(***************************************************************************)
(* merge_bundle_tests                                                      *)
(***************************************************************************)
\* for item in tests: all_tests_by_build[build_key] = item
RECURSIVE AddByBuild(_, _)
AddByBuild(all_tests_by_build, tests) ==
    IF tests = <<>> THEN all_tests_by_build
    ELSE AddByBuild(DictSet(all_tests_by_build, build_key(Head(tests)), Head(tests)),
                    Tail(tests))

\* mutant of merge_bundle_tests: the persisted entry overwrites the new one
merge_bundle_tests_existing_wins(new, existing, lim) ==
    LET all_tests_by_build == AddByBuild(AddByBuild(<<>>, new), existing)
        all_tests == SortNewestFirst(DictValues(all_tests_by_build))
    IN  IF lim # None THEN Truncate(all_tests, lim[1]) ELSE all_tests

merge_bundle_tests(new, existing, lim) ==
    LET all_tests_by_build == AddByBuild(AddByBuild(<<>>, existing), new)
        all_tests == SortNewestFirst(DictValues(all_tests_by_build))
    IN  IF lim # None THEN Truncate(all_tests, lim[1]) ELSE all_tests

(***************************************************************************)
(* merge_release_tests                                                     *)
(***************************************************************************)
\* the loop over existing_tests: every item is grouped
RECURSIVE GroupExisting(_, _)
GroupExisting(results_by_version, tests) ==
    IF tests = <<>> THEN results_by_version
    ELSE GroupExisting(DictAppend(results_by_version, get_version_key(Head(tests)),
                                  Head(tests)),
                       Tail(tests))

\* the loop over new_tests: only exact versions that are not ABORTED are grouped
RECURSIVE GroupNew(_, _)
GroupNew(results_by_version, tests) ==
    IF tests = <<>> THEN results_by_version
    ELSE GroupNew(IF /\ has_exact_versions(Head(tests))
                     /\ Head(tests).test_status # STATUS_ABORTED
                  THEN DictAppend(results_by_version, get_version_key(Head(tests)),
                                  Head(tests))
                  ELSE results_by_version,
                  Tail(tests))

results_by_version(new, existing) == GroupNew(GroupExisting(<<>>, existing), new)

\* mutant of selected_result: the first result of the group, whatever is newer
selected_result_first(version_results) == version_results[1]

\* mutant of selected_result: the latest result whatever its status
selected_result_latest(version_results) == SortNewestFirst(version_results)[1]

selected_result(version_results) ==
    LET success_results ==
            SelectSeq(version_results, LAMBDA r : r.test_status = STATUS_SUCCESS)
        other_results ==
            SelectSeq(version_results, LAMBDA r : r.test_status # STATUS_SUCCESS)
    IN  IF success_results # <<>>
        THEN SortNewestFirst(success_results)[1]
        ELSE SortNewestFirst(other_results)[1]

\* mutant of merge_release_tests: the latest result of a version pair is kept,
\* whatever its status
merge_release_tests_latest_wins(new, existing) ==
    LET groups == results_by_version(new, existing)
        final_results == [i \in 1..Len(groups) |-> selected_result_latest(groups[i][2])]
    IN  SortNewestFirst(final_results)

merge_release_tests(new, existing) ==
    LET groups == results_by_version(new, existing)
        final_results == [i \in 1..Len(groups) |-> selected_result(groups[i][2])]
    IN  SortNewestFirst(final_results)

(***************************************************************************)
(* merge_job_history_links, merge_ocp_version_results,                     *)
(* merge_and_save_results                                                  *)
(***************************************************************************)
\* sorted(list(links))
RECURSIVE SortedList(_)
SortedList(links) ==
    IF links = {} THEN <<>>
    ELSE LET first == CHOOSE x \in links : \A y \in links : x <= y
         IN  <<first>> \o SortedList(links \ {first})

\* mutant of merge_job_history_links: the persisted links are not kept
merge_job_history_links_new_only(new_links, existing_links) ==
    SortedList(new_links)

\* new_links is the set the fetch collected, existing_links the persisted list
merge_job_history_links(new_links, existing_links) ==
    SortedList(new_links \cup Range(existing_links))

\* d.get(key, default)
DictGet(d, key, default) == IF key \in DOMAIN d THEN d[key] ELSE default

\* d.update(e)
DictUpdate(d, e) ==
    [k \in DOMAIN d \cup DOMAIN e |-> IF k \in DOMAIN e THEN e[k] ELSE d[k]]

EmptyDict == <<>>

\* mutant of merge_ocp_version_results: the merged bucket starts with an
\* empty notes list whatever the persisted bucket holds
merge_ocp_version_results_fresh_notes(new_version_data, existing_version_data, lim) ==
    LET merged_version_data ==
            DictUpdate(existing_version_data,
                       [notes |-> <<>>,
                        bundle_tests |->
                            DictGet(existing_version_data, "bundle_tests", <<>>),
                        release_tests |->
                            DictGet(existing_version_data, "release_tests", <<>>),
                        job_history_links |->
                            DictGet(existing_version_data, "job_history_links", <<>>)])
    IN  [merged_version_data EXCEPT
            !.bundle_tests =
                merge_bundle_tests(DictGet(new_version_data, "bundle_tests", <<>>),
                                   @, lim),
            !.release_tests =
                merge_release_tests(DictGet(new_version_data, "release_tests", <<>>),
                                    @),
            !.job_history_links =
                merge_job_history_links(
                    DictGet(new_version_data, "job_history_links", {}), @)]

merge_ocp_version_results(new_version_data, existing_version_data, lim) ==
    LET merged_version_data ==
            DictUpdate([notes |-> <<>>, bundle_tests |-> <<>>,
                        release_tests |-> <<>>, job_history_links |-> <<>>],
                       existing_version_data)
    IN  [merged_version_data EXCEPT
            !.bundle_tests =
                merge_bundle_tests(DictGet(new_version_data, "bundle_tests", <<>>),
                                   @, lim),
            !.release_tests =
                merge_release_tests(DictGet(new_version_data, "release_tests", <<>>),
                                    @),
            !.job_history_links =
                merge_job_history_links(
                    DictGet(new_version_data, "job_history_links", {}), @)]

\* mutant of merge_and_save_results: only the buckets of the batch are written
merge_and_save_results_batch_only(new, existing, lim) ==
    [ocp_version \in DOMAIN new |->
        merge_ocp_version_results(new[ocp_version],
                                  DictGet(existing, ocp_version, EmptyDict), lim)]

\* the merged_results that merge_and_save_results dumps to the output file
merge_and_save_results(new, existing, lim) ==
    [ocp_version \in DOMAIN existing \cup DOMAIN new |->
        IF ocp_version \in DOMAIN new
        THEN merge_ocp_version_results(new[ocp_version],
                                       DictGet(existing, ocp_version, EmptyDict), lim)
        ELSE existing[ocp_version]]

(***************************************************************************)
(* Bounded inputs                                                          *)
(***************************************************************************)
Timestamps == 1..MaxTs

Limits == {None} \cup {<<n>> : n \in 0..MaxLimit}

Url(pr, job, build) ==
    [repo |-> "rh-ecosystem-edge_nvidia-ci", pr_number |-> pr,
     job_name |-> job, build_id |-> build]

BundleJob == "pull-ci-rh-ecosystem-edge-nvidia-ci-main-4.14-stable-nvidia-gpu-operator-e2e-master"
ReleaseJob == "pull-ci-rh-ecosystem-edge-nvidia-ci-main-4.14-stable-nvidia-gpu-operator-e2e-23-9-x"

\* three builds: two pull requests with the same build id, one with two builds
BundleUrls ==
    {Url("123", BundleJob, "456"), Url("124", BundleJob, "456"),
     Url("123", BundleJob, "457")}

BundleTests ==
    {[ocp_full_version |-> <<4, 14, 1>>,
      gpu_operator_version |-> [ver |-> <<25, 3, 0>>, note |-> "(bundle)"],
      test_status |-> STATUS_SUCCESS, prow_job_url |-> u, job_timestamp |-> t] :
        u \in BundleUrls, t \in Timestamps}

fnIdle ==
    /\ new_tests = <<>> /\ existing_tests = <<>> /\ limit = None
    /\ merged_tests = <<>> /\ called = FALSE

otherIdle == swapped_file = <<>> /\ swapped_results = <<>>

runIdle ==
    /\ data_file = <<>> /\ existing_results = <<>> /\ new_results = <<>>
    /\ bundle_result_limit = None /\ runs = 0
    /\ otherIdle

fetchIdle ==
    /\ gcs = <<>> /\ builds_to_process = <<>> /\ results_by_ocp = <<>>
    /\ pc = "idle"

plannerIdle ==
    /\ known_ocp_releases = {} /\ known_gpu_releases = <<>> /\ tests_matrix = {}
    /\ master_tests = {} /\ ocp_tests = {} /\ gpu_tests = {}
    /\ tests_file = <<>>

pagesIdle ==
    /\ catalog_api = <<>> /\ normalized_gpu_versions = {} /\ ocp_versions_set = {}
    /\ page = 0 /\ all_entries = <<>> /\ requested_pages = <<>> /\ paging = "idle"

selectIdle ==
    /\ given_versions = <<>> /\ given_count = 0 /\ latest_versions = <<>>
    /\ earliest_versions = <<>> /\ selecting = {}

helpersIdle == pagesIdle /\ selectIdle

versionsIdle ==
    /\ helpersIdle
    /\ old_versions = <<>> /\ new_versions = <<>> /\ ocp_versions = <<>>
    /\ support_matrix = <<>> /\ check_catalog = FALSE /\ catalog = {}
    /\ gpu_diffs = <<>> /\ filtered_diffs = <<>> /\ gpu_catalog_entries = {}
    /\ diffs = <<>> /\ tests_commands = {} /\ rejected_before = <<>>
    /\ catalog_request = <<>>
    /\ plannerIdle

(***************************************************************************)
(* SpecBundle: merge_bundle_tests on bounded inputs                        *)
(***************************************************************************)
InitBundle ==
    /\ new_tests \in SeqsUpTo(BundleTests, MaxLen)
    /\ existing_tests \in SeqsUpTo(BundleTests, MaxObs - Len(new_tests))
    /\ limit \in Limits
    /\ merged_tests = <<>>
    /\ called = FALSE
    /\ runIdle /\ versionsIdle /\ fetchIdle

CallMergeBundleTests ==
    /\ ~called
    /\ merged_tests' = merge_bundle_tests(new_tests, existing_tests, limit)
    /\ called' = TRUE
    /\ UNCHANGED <<new_tests, existing_tests, limit>>
    /\ UNCHANGED <<runVars, otherVars, versionVars, fetchVars>>

NextBundle == CallMergeBundleTests

SpecBundle == InitBundle /\ [][NextBundle]_vars

(***************************************************************************)
(* SpecRelease: merge_release_tests on bounded inputs                      *)
(***************************************************************************)
\* an exact pair, the same pair with a parenthesised note after the component
\* version, and the base versions taken from the job name (not exact)
ReleaseVersions ==
    {[ocp |-> <<4, 14, 1>>, gpu |-> [ver |-> <<23, 9, 0>>, note |-> ""]],
     [ocp |-> <<4, 14, 1>>, gpu |-> [ver |-> <<23, 9, 0>>, note |-> "(bundle)"]],
     [ocp |-> <<4, 14>>, gpu |-> [ver |-> <<23, 9>>, note |-> ""]]}

Statuses == {STATUS_SUCCESS, STATUS_FAILURE, STATUS_ABORTED}

ReleaseTests ==
    {[ocp_full_version |-> v.ocp, gpu_operator_version |-> v.gpu,
      test_status |-> st, prow_job_url |-> Url("123", ReleaseJob, "456"),
      job_timestamp |-> t] :
        v \in ReleaseVersions, st \in Statuses, t \in Timestamps}

\* at most MaxObs observations in the two lists together
InitRelease ==
    /\ new_tests \in SeqsUpTo(ReleaseTests, MaxObs)
    /\ existing_tests \in SeqsUpTo(ReleaseTests, MaxObs - Len(new_tests))
    /\ limit = None
    /\ merged_tests = <<>>
    /\ called = FALSE
    /\ runIdle /\ versionsIdle /\ fetchIdle

CallMergeReleaseTests ==
    /\ ~called
    /\ merged_tests' = merge_release_tests(new_tests, existing_tests)
    /\ called' = TRUE
    /\ UNCHANGED <<new_tests, existing_tests, limit>>
    /\ UNCHANGED <<runVars, otherVars, versionVars, fetchVars>>

NextRelease == CallMergeReleaseTests

SpecRelease == InitRelease /\ [][NextRelease]_vars

(***************************************************************************)
(* Vocabulary of the properties                                            *)
(***************************************************************************)
\* the build key (pr_number, job_name, build_id) of an observation
BuildKeyOf(t) ==
    <<t.prow_job_url.pr_number, t.prow_job_url.job_name, t.prow_job_url.build_id>>

\* the (platform full version, component full version) pair of an observation
VersionPairOf(t) == <<t.ocp_full_version, t.gpu_operator_version.ver>>

IsExact(t) == Len(t.ocp_full_version) = 3 /\ Len(t.gpu_operator_version.ver) = 3

NewestFirst(tests) ==
    \A i, j \in 1..Len(tests) :
        i < j => tests[i].job_timestamp >= tests[j].job_timestamp

NoRepeats(tests) == Cardinality(Range(tests)) = Len(tests)

\* the last item of tests with build key k
LastWithKey(tests, k) ==
    LET I == {i \in 1..Len(tests) : BuildKeyOf(tests[i]) = k}
    IN  tests[CHOOSE i \in I : \A j \in I : j <= i]

KeysOf(tests) == {BuildKeyOf(tests[i]) : i \in 1..Len(tests)}

\* grouping persisted and new observations by build key: per key the last new
\* observation, or with none the last persisted one
BundleCandidates(new, existing) ==
    {IF k \in KeysOf(new) THEN LastWithKey(new, k) ELSE LastWithKey(existing, k) :
        k \in KeysOf(new) \cup KeysOf(existing)}

(***************************************************************************)
(* C6: after merge_bundle_tests with a limit L the result has at most L    *)
(* entries, is sorted by timestamp descending, and holds exactly the L     *)
(* most recent of the candidates (persisted and new observations grouped   *)
(* by build key): none of the dropped candidates is newer than a kept one; *)
(* with no limit every candidate is kept.                                  *)
(***************************************************************************)
C6_BundlePruning ==
    called =>
        LET cand == BundleCandidates(new_tests, existing_tests)
            kept == Range(merged_tests)
        IN  /\ kept \subseteq cand
            /\ NoRepeats(merged_tests)
            /\ NewestFirst(merged_tests)
            /\ limit = None => kept = cand
            /\ limit # None =>
                /\ Len(merged_tests) <= limit[1]
                /\ Len(merged_tests) = Min(limit[1], Cardinality(cand))
                /\ \A c \in cand \ kept : \A m \in kept :
                        m.job_timestamp >= c.job_timestamp

C6_Witness ==
    /\ called
    /\ limit = <<1>>
    /\ Cardinality(BundleCandidates(new_tests, existing_tests)) = 3
    /\ Len(merged_tests) = 1
    /\ merged_tests[1].job_timestamp = MaxTs
    /\ \E c \in BundleCandidates(new_tests, existing_tests) : c.job_timestamp < MaxTs

(***************************************************************************)
(* C7: after merge_bundle_tests without a limit there is exactly one entry *)
(* per build key (pr_number, job_name, build_id) occurring in persisted or *)
(* new; for a key in both the entry is the one of the new batch; entries   *)
(* with distinct build keys are all kept although they share versions.     *)
(***************************************************************************)
C7_BundleDedup ==
    (called /\ limit = None) =>
        LET keys == KeysOf(new_tests) \cup KeysOf(existing_tests)
        IN  /\ KeysOf(merged_tests) = keys
            /\ Len(merged_tests) = Cardinality(keys)
            /\ \A i \in 1..Len(merged_tests) :
                LET k == BuildKeyOf(merged_tests[i])
                IN  IF k \in KeysOf(new_tests)
                    THEN merged_tests[i] = LastWithKey(new_tests, k)
                    ELSE merged_tests[i] \in Range(existing_tests)

C7_Witness ==
    /\ called /\ limit = None
    /\ Len(merged_tests) = 2
    /\ \E k \in KeysOf(new_tests) \cap KeysOf(existing_tests) :
            LastWithKey(new_tests, k) # LastWithKey(existing_tests, k)
    /\ \A i, j \in 1..2 :
            VersionPairOf(merged_tests[i]) = VersionPairOf(merged_tests[j])

(***************************************************************************)
(* C3: in merge_release_tests, for every (platform full version, component *)
(* full version) group formed from the persisted observations and the new  *)
(* observations that pass the filter, exactly one observation survives; it *)
(* is a SUCCESS observation if the group contains any SUCCESS, and within  *)
(* its outcome class (SUCCESS or not) none of the group is newer.          *)
(***************************************************************************)
\* the observations merge_release_tests groups
Grouped(new, existing) ==
    Range(existing) \cup
    {t \in Range(new) : IsExact(t) /\ t.test_status # STATUS_ABORTED}

IsSuccess(t) == t.test_status = STATUS_SUCCESS

C3_ReleaseSurvivor ==
    called =>
        LET all == Grouped(new_tests, existing_tests)
            pairs == {VersionPairOf(t) : t \in all}
        IN  /\ Len(merged_tests) = Cardinality(pairs)
            /\ \A p \in pairs :
                LET group == {t \in all : VersionPairOf(t) = p}
                IN  \E i \in 1..Len(merged_tests) :
                        /\ merged_tests[i] \in group
                        /\ \A j \in 1..Len(merged_tests) :
                                VersionPairOf(merged_tests[j]) = p => j = i
                        /\ (\E t \in group : IsSuccess(t)) => IsSuccess(merged_tests[i])
                        /\ \A t \in group :
                                IsSuccess(t) = IsSuccess(merged_tests[i])
                                    => t.job_timestamp <= merged_tests[i].job_timestamp

\* an older SUCCESS survives a newer FAILURE of the same pair
C3_Witness ==
    /\ called
    /\ \E t \in Range(existing_tests) : \E u \in Range(new_tests) :
        /\ VersionPairOf(t) = VersionPairOf(u)
        /\ t.test_status = STATUS_FAILURE /\ IsSuccess(u) /\ IsExact(u)
        /\ t.job_timestamp > u.job_timestamp
        /\ \E i \in 1..Len(merged_tests) :
                /\ VersionPairOf(merged_tests[i]) = VersionPairOf(u)
                /\ IsSuccess(merged_tests[i])

(***************************************************************************)
(* C4: after merge_release_tests the output holds no ABORTED observation   *)
(* and no observation whose platform or component version is not an exact  *)
(* semantic version, whether it came from the new batch or from the        *)
(* persisted history.                                                      *)
(***************************************************************************)
C4_ReleaseSelfHeals ==
    called =>
        \A i \in 1..Len(merged_tests) :
            /\ merged_tests[i].test_status # STATUS_ABORTED
            /\ IsExact(merged_tests[i])

(***************************************************************************)
(* Spec: the reconciler run after run on one history file                  *)
(***************************************************************************)
\* job_history_url of process_tests_for_pr, as the rank of the link
job_history_url(job_name) == IF job_name = ReleaseJob THEN 1 ELSE 2

Test(ocp, gpu, status, url, ts) ==
    [ocp_full_version |-> ocp, gpu_operator_version |-> gpu, test_status |-> status,
     prow_job_url |-> url, job_timestamp |-> ts]

Gpu(ver, note) == [ver |-> ver, note |-> note]

\* what process_tests_for_pr collects for one OCP version: the lists and the
\* links of the jobs seen
VersionData(bundle, release) ==
    [bundle_tests |-> bundle, release_tests |-> release,
     job_history_links |->
        {job_history_url(t.prow_job_url.job_name) : t \in Range(bundle) \cup Range(release)}]

RunBundleTests ==
    {Test(<<4, 14, 1>>, Gpu(<<25, 3, 0>>, "(bundle)"), STATUS_SUCCESS,
          Url(pr, BundleJob, "456"), t) : pr \in {"123", "124"}, t \in Timestamps}

RunReleaseTests ==
    {Test(<<4, 14, 1>>, Gpu(<<23, 9, 0>>, note), st, Url("123", ReleaseJob, "456"), t) :
        note \in {"", "(bundle)"}, st \in {STATUS_SUCCESS, STATUS_FAILURE},
        t \in Timestamps}

\* one fetch for OCP 4.14: nothing, one bundle or one release observation
SmallData ==
    {VersionData(b, <<>>) : b \in SeqsUpTo(RunBundleTests, 1)}
    \cup {VersionData(<<>>, r) : r \in SeqsUpTo(RunReleaseTests, 1)}

OtherData ==
    {VersionData(<<>>, <<Test(<<4, 15, 2>>, Gpu(<<23, 9, 0>>, ""), STATUS_SUCCESS,
                             Url("125", ReleaseJob, "458"), 1)>>)}

\* new_results: a batch for none, one or both of the OCP versions
Batches ==
    {EmptyDict}
    \cup {[v \in {"4.14"} |-> d] : d \in SmallData}
    \cup {[v \in {"4.15"} |-> d] : d \in OtherData}
    \cup {[v \in {"4.14", "4.15"} |-> IF v = "4.14" THEN d ELSE e] :
            d \in SmallData, e \in OtherData}

\* history files a run can find: empty; without notes and links (as the tests
\* write them) beside a version no fetch touches; with notes and a legacy
\* ABORTED entry.  release_tests holds at most one entry per version pair.
InitialHistories ==
    {EmptyDict,
     [v \in {"4.13", "4.14"} |->
        IF v = "4.13"
        THEN [notes |-> <<"known issue", "fixed in 23.9.1">>, bundle_tests |-> <<>>,
              release_tests |-> <<Test(<<4, 13, 5>>, Gpu(<<23, 9, 0>>, ""),
                                       STATUS_SUCCESS,
                                       Url("124", ReleaseJob, "457"), 1)>>,
              job_history_links |-> <<1>>]
        ELSE [bundle_tests |-> <<Test(<<4, 14, 1>>, Gpu(<<25, 3, 0>>, "(bundle)"),
                                      STATUS_SUCCESS, Url("123", BundleJob, "456"), 1)>>,
              release_tests |-> <<Test(<<4, 14, 1>>, Gpu(<<23, 9, 0>>, ""),
                                       STATUS_FAILURE,
                                       Url("123", ReleaseJob, "456"), MaxTs)>>]],
     [v \in {"4.14"} |->
        [notes |-> <<"driver issue", "retest pending">>, bundle_tests |-> <<>>,
         release_tests |-> <<Test(<<4, 14, 1>>, Gpu(<<23, 9, 0>>, ""), STATUS_ABORTED,
                                  Url("123", ReleaseJob, "456"), MaxTs)>>,
         job_history_links |-> <<2>>]]}

\* no run yet: the state is that of a run that fetched nothing
Init ==
    /\ data_file \in InitialHistories
    /\ existing_results = data_file
    /\ new_results = EmptyDict
    /\ bundle_result_limit \in {None, <<1>>}
    /\ runs = 0
    /\ fnIdle /\ otherIdle /\ versionsIdle /\ fetchIdle

\* main: load the file, fetch a batch, merge_and_save_results; the limit is
\* the workflow's setting, the same in every run
Run ==
    /\ runs < MaxRuns
    /\ \E batch \in Batches :
        /\ existing_results' = data_file
        /\ new_results' = batch
        /\ data_file' = merge_and_save_results(batch, data_file, bundle_result_limit)
    /\ runs' = runs + 1
    /\ UNCHANGED bundle_result_limit
    /\ UNCHANGED <<fnVars, otherVars, versionVars, fetchVars>>

Next == Run

Spec == Init /\ [][Next]_vars

(***************************************************************************)
(* C5: starting from a history whose release_tests hold at most one entry  *)
(* per (platform full version, component full version) pair, after any     *)
(* sequence of merges every bucket's release_tests still holds at most one *)
(* entry per pair.                                                         *)
(***************************************************************************)
OnePerPair(tests) ==
    \A i, j \in 1..Len(tests) :
        VersionPairOf(tests[i]) = VersionPairOf(tests[j]) => i = j

C5_ReleaseUnique ==
    \A v \in DOMAIN data_file :
        OnePerPair(DictGet(data_file[v], "release_tests", <<>>))

\* two runs brought observations of one pair into a bucket that held it already
C5_Witness ==
    /\ runs = 2
    /\ "4.14" \in DOMAIN existing_results /\ "4.14" \in DOMAIN new_results
    /\ \E t \in Range(existing_results["4.14"].release_tests) :
       \E u \in Range(new_results["4.14"].release_tests) :
            /\ VersionPairOf(t) = VersionPairOf(u)
            /\ t # u
            /\ t.gpu_operator_version # u.gpu_operator_version
    /\ Len(data_file["4.14"].release_tests) = 1

\* the notes and the links of bucket v of a history, empty when the bucket or
\* the key is not there
NotesOf(history, v) ==
    IF v \in DOMAIN history THEN DictGet(history[v], "notes", <<>>) ELSE <<>>

LinksOf(history, v) ==
    IF v \in DOMAIN history THEN DictGet(history[v], "job_history_links", <<>>)
    ELSE <<>>

NewLinksOf(v) ==
    IF v \in DOMAIN new_results
    THEN DictGet(new_results[v], "job_history_links", {}) ELSE {}

(***************************************************************************)
(* C17: after every merge the notes list of every bucket is the notes list *)
(* the bucket had in the history the merge loaded, the empty list when the *)
(* bucket is new or had no notes; a bucket the batch has an entry for      *)
(* carries the list under its notes key.                                   *)
(***************************************************************************)
C17_NotesPassThrough ==
    /\ \A v \in DOMAIN data_file :
        NotesOf(data_file, v) = NotesOf(existing_results, v)
    /\ runs > 0 =>
        \A v \in DOMAIN new_results : "notes" \in DOMAIN data_file[v]

\* the second run merged observations into a bucket that holds two notes and
\* into a bucket that did not exist
C17_Witness ==
    /\ runs = 2
    /\ \E v \in DOMAIN new_results \cap DOMAIN existing_results :
        /\ Len(NotesOf(existing_results, v)) = 2
        /\ data_file[v].release_tests # existing_results[v].release_tests
        /\ data_file[v].notes = existing_results[v].notes
    /\ \E v \in DOMAIN new_results \ DOMAIN existing_results :
        data_file[v].notes = <<>>

\* a list of links is ascending, so sorted and without duplicates
Ascending(links) == \A i, j \in 1..Len(links) : i < j => links[i] < links[j]

(***************************************************************************)
(* C18: after a merge, job_history_links of every bucket of the batch is   *)
(* the ascending list, without duplicates, of the persisted links and the  *)
(* new links of the bucket; and merge after merge every link a bucket held *)
(* is still in the bucket.                                                 *)
(***************************************************************************)
C18_LinksGrow ==
    /\ runs > 0 =>
        \A v \in DOMAIN new_results :
            /\ Ascending(data_file[v].job_history_links)
            /\ Range(data_file[v].job_history_links)
                = Range(LinksOf(existing_results, v)) \cup NewLinksOf(v)
    /\ \A v \in DOMAIN existing_results :
        Range(LinksOf(existing_results, v)) \subseteq Range(LinksOf(data_file, v))

\* the second run found a link that sorts before the persisted link of the
\* bucket, and another bucket received its first link
C18_Witness ==
    /\ runs = 2
    /\ \E v \in DOMAIN new_results \cap DOMAIN existing_results :
        /\ LinksOf(existing_results, v) = <<2>>
        /\ NewLinksOf(v) = {1}
        /\ data_file[v].job_history_links = <<1, 2>>
    /\ \E v \in DOMAIN new_results :
        LinksOf(existing_results, v) = <<>> /\ Len(data_file[v].job_history_links) = 1

(***************************************************************************)
(* C19: a bucket of the loaded history that the batch has no entry for is  *)
(* in the merged history exactly as it was loaded; the buckets of the      *)
(* merged history are those of the loaded history and those of the batch;  *)
(* merging an empty batch returns the loaded history.                      *)
(***************************************************************************)
C19_UntouchedBuckets ==
    /\ \A v \in DOMAIN existing_results \ DOMAIN new_results :
        v \in DOMAIN data_file /\ data_file[v] = existing_results[v]
    /\ DOMAIN data_file = DOMAIN existing_results \cup DOMAIN new_results
    /\ new_results = EmptyDict => data_file = existing_results

\* the history holds two buckets, one of them without notes and links, and
\* the second run's batch is for a third platform only
C19_Witness ==
    /\ runs = 2
    /\ Cardinality(DOMAIN existing_results \ DOMAIN new_results) = 2
    /\ \E v \in DOMAIN existing_results : "notes" \notin DOMAIN data_file[v]
    /\ DOMAIN new_results \ DOMAIN existing_results # {}
    /\ Cardinality(DOMAIN data_file) = 3

(***************************************************************************)
(* SpecTwice: one batch merged twice into a history of any content         *)
(***************************************************************************)
\* what a history file written by earlier versions may hold for a version pair
LegacyReleaseTests ==
    RunReleaseTests
    \cup {Test(<<4, 14, 1>>, Gpu(<<23, 9, 0>>, ""), STATUS_ABORTED,
               Url("123", ReleaseJob, "456"), MaxTs),
          Test(<<4, 14>>, Gpu(<<23, 9>>, ""), STATUS_FAILURE,
               Url("123", ReleaseJob, "456"), 1)}

LegacyHistories ==
    {EmptyDict}
    \cup {[v \in {"4.14"} |->
            [notes |-> <<"driver issue">>, bundle_tests |-> b, release_tests |-> r,
             job_history_links |-> <<2>>]] :
            b \in SeqsUpTo(RunBundleTests, 1), r \in SeqsUpTo(LegacyReleaseTests, 1)}

\* the histories with a bundle entry of build 123/456 and an unannotated
\* release entry
SmallHistories ==
    {h \in LegacyHistories :
        h # EmptyDict =>
            /\ \A t \in Range(h["4.14"].bundle_tests) : t.prow_job_url.pr_number = "123"
            /\ \A t \in Range(h["4.14"].release_tests) : t.gpu_operator_version.note = ""}

\* a fetch for OCP 4.14 with at most MaxLen observations
TwiceBatches ==
    {EmptyDict}
    \cup UNION {{[v \in {"4.14"} |-> VersionData(b, r)] :
                    b \in [1..n[1] -> RunBundleTests],
                    r \in [1..n[2] -> RunReleaseTests]} :
                n \in {m \in (0..MaxLen) \X (0..MaxLen) : m[1] + m[2] <= MaxLen}}

InitTwice ==
    /\ data_file \in SmallHistories
    /\ existing_results = data_file
    /\ new_results \in TwiceBatches
    /\ bundle_result_limit \in Limits
    /\ runs = 0
    /\ fnIdle /\ otherIdle /\ versionsIdle /\ fetchIdle

\* a run that fetched the batch new_results; the second run fetches it again
RunSameBatch ==
    /\ runs < 2
    /\ existing_results' = data_file
    /\ data_file' = merge_and_save_results(new_results, data_file, bundle_result_limit)
    /\ runs' = runs + 1
    /\ UNCHANGED <<new_results, bundle_result_limit>>
    /\ UNCHANGED <<fnVars, otherVars, versionVars, fetchVars>>

NextTwice == RunSameBatch

SpecTwice == InitTwice /\ [][NextTwice]_vars

(***************************************************************************)
(* C1: merging a batch X into merge(X, H) yields merge(X, H): the second   *)
(* run that fetched the same batch (same bundle limit) writes the file it  *)
(* loaded - notes, bundle_tests, release_tests (content and order) and     *)
(* job_history_links of every bucket unchanged.                            *)
(***************************************************************************)
C1_Idempotent == runs = 2 => data_file = existing_results

\* the first merge changed the history and cut the bundle list at the limit
C1_Witness ==
    /\ runs = 2
    /\ bundle_result_limit = <<1>>
    /\ "4.14" \in DOMAIN new_results
    /\ Len(new_results["4.14"].bundle_tests) = 2
    /\ KeysOf(new_results["4.14"].bundle_tests) # KeysOf(data_file["4.14"].bundle_tests)
    /\ Len(data_file["4.14"].release_tests) = 1

(***************************************************************************)
(* SpecOrder: two copies of the reconciler start from the same history;    *)
(* one merges batch A then batch B, the other B then A                     *)
(***************************************************************************)
\* release observations of two builds of the release job
OrderReleaseTests ==
    {Test(<<4, 14, 1>>, Gpu(<<23, 9, 0>>, ""), st, Url(pr, ReleaseJob, "456"), t) :
        pr \in {"123", "124"}, st \in {STATUS_SUCCESS, STATUS_FAILURE}, t \in Timestamps}

\* a fetch for OCP 4.14: at most one bundle and one release observation
OrderBatches ==
    {EmptyDict}
    \cup {[v \in {"4.14"} |-> VersionData(b, r)] :
            b \in SeqsUpTo(RunBundleTests, 1), r \in SeqsUpTo(OrderReleaseTests, 1)}

InitOrder ==
    /\ data_file \in SmallHistories
    /\ existing_results = data_file
    /\ swapped_file = data_file
    /\ new_results \in OrderBatches
    /\ swapped_results \in OrderBatches
    /\ bundle_result_limit \in {None, <<1>>}
    /\ runs = 0
    /\ fnIdle /\ versionsIdle /\ fetchIdle

\* the first copy merges new_results, the second swapped_results
RunFirst ==
    /\ runs = 0
    /\ data_file' = merge_and_save_results(new_results, data_file, bundle_result_limit)
    /\ swapped_file' = merge_and_save_results(swapped_results, swapped_file, bundle_result_limit)
    /\ runs' = 1
    /\ UNCHANGED <<existing_results, new_results, swapped_results, bundle_result_limit>>
    /\ UNCHANGED <<fnVars, versionVars, fetchVars>>

\* the first copy merges swapped_results, the second new_results
RunSecond ==
    /\ runs = 1
    /\ data_file' = merge_and_save_results(swapped_results, data_file, bundle_result_limit)
    /\ swapped_file' = merge_and_save_results(new_results, swapped_file, bundle_result_limit)
    /\ runs' = 2
    /\ UNCHANGED <<existing_results, new_results, swapped_results, bundle_result_limit>>
    /\ UNCHANGED <<fnVars, versionVars, fetchVars>>

NextOrder == RunFirst \/ RunSecond

SpecOrder == InitOrder /\ [][NextOrder]_vars

\* the same release_tests and the same bundle_tests, as sets, in every bucket
SameObservations(h1, h2) ==
    /\ DOMAIN h1 = DOMAIN h2
    /\ \A v \in DOMAIN h1 :
        /\ Range(DictGet(h1[v], "release_tests", <<>>))
                = Range(DictGet(h2[v], "release_tests", <<>>))
        /\ Range(DictGet(h1[v], "bundle_tests", <<>>))
                = Range(DictGet(h2[v], "bundle_tests", <<>>))

\* C2 as claimed: order independence for any history and any two batches
C2_OrderIndependent_AnyBatches ==
    runs = 2 => SameObservations(data_file, swapped_file)

\* the observations of kind in the history and the two batches, per bucket
AllOf(kind, v) ==
    Range(DictGet(DictGet(existing_results, v, EmptyDict), kind, <<>>))
    \cup Range(DictGet(DictGet(new_results, v, EmptyDict), kind, <<>>))
    \cup Range(DictGet(DictGet(swapped_results, v, EmptyDict), kind, <<>>))

BuildsImmutable ==
    \A v \in {"4.14"} : \A t, u \in AllOf("bundle_tests", v) :
        BuildKeyOf(t) = BuildKeyOf(u) => t = u

NoBundleTies ==
    \A v \in {"4.14"} : \A t, u \in AllOf("bundle_tests", v) :
        t # u => t.job_timestamp # u.job_timestamp

NoReleaseTies ==
    \A v \in {"4.14"} : \A t, u \in AllOf("release_tests", v) :
        (/\ t # u
         /\ VersionPairOf(t) = VersionPairOf(u)
         /\ IsSuccess(t) = IsSuccess(u)) => t.job_timestamp # u.job_timestamp

(***************************************************************************)
(* C2 (amended): when the bundle observations of the history and the two   *)
(* batches that share a build key are identical, bundle observations that  *)
(* differ have different timestamps if a bundle limit is set, and release  *)
(* observations of one version pair and one outcome class (SUCCESS or not) *)
(* that differ have different timestamps, then merging A then B yields in  *)
(* every bucket the same set of release_tests and the same set of          *)
(* bundle_tests as merging B then A.                                       *)
(***************************************************************************)
C2_OrderIndependent ==
    (/\ runs = 2
     /\ BuildsImmutable
     /\ bundle_result_limit # None => NoBundleTies
     /\ NoReleaseTies) => SameObservations(data_file, swapped_file)

\* both batches bring bundle and release observations, A and B differ, the
\* limit cuts the bundle list and a SUCCESS replaced a newer FAILURE
C2_Witness ==
    /\ runs = 2
    /\ BuildsImmutable /\ NoBundleTies /\ NoReleaseTies
    /\ bundle_result_limit = <<1>>
    /\ new_results # swapped_results
    /\ new_results # EmptyDict /\ swapped_results # EmptyDict
    /\ Cardinality(AllOf("bundle_tests", "4.14")) >= 2
    /\ Cardinality(AllOf("release_tests", "4.14")) >= 2
    /\ Len(new_results["4.14"].release_tests) = 1
    /\ Len(swapped_results["4.14"].release_tests) = 1
    /\ Len(data_file["4.14"].bundle_tests) = 1
    /\ Len(data_file["4.14"].release_tests) = 1

(***************************************************************************)
(* update_versions: version trees                                          *)
(*                                                                         *)
(* A dict is a function on its keys; a value of a version tree is a node,  *)
(* [leaf |-> string] or [dict |-> function], so that isinstance(value,     *)
(* dict) is a test of the node.  A minor version "25.10" is the tuple      *)
(* <<25, 10>>.  A string that lstrip('v') is applied to is [v |-> number   *)
(* of leading 'v' characters, body |-> the rest].                          *)
(***************************************************************************)
MaxPatch == 1
MaxEntries == 2

VERSION_MASTER == <<"master">>
VERSION_GPU_MAIN_LATEST == "gpu-main-latest"
VERSION_GPU_OPERATOR == "gpu-operator"
VERSION_OCP == "ocp"
STATUS_ACTIVE == "active"
STATUS_MAINTENANCE == "maintenance"
CONFIG_STATUS == "status"
CONFIG_PINNED_GPU_OPERATOR == "pinned_gpu_operator"
CONFIG_OPENSHIFT_SUPPORT == "openshift_support"
CONFIG_DEFAULTS == "defaults"
CONFIG_UNLISTED_VERSIONS == "unlisted_versions"

Leaf(s) == [leaf |-> s]
Dict(f) == [dict |-> f]
IsDict(value) == "dict" \in DOMAIN value

Str(nv, body) == [v |-> nv, body |-> body]
lstrip_v(s) == [v |-> 0, body |-> s.body]

\* mutant of calculate_diffs_tree: a leaf is reported only when its key is new
RECURSIVE calculate_diffs_new_keys(_, _)
calculate_diffs_new_keys(old, new) ==
    LET sub_diff(key) ==
            calculate_diffs_new_keys(
                IF key \in DOMAIN old THEN old[key].dict ELSE EmptyDict, new[key].dict)
        changed == {key \in DOMAIN new :
                        IF IsDict(new[key]) THEN sub_diff(key) # EmptyDict
                        ELSE key \notin DOMAIN old}
    IN  [key \in changed |->
            IF IsDict(new[key]) THEN Dict(sub_diff(key)) ELSE new[key]]

\* calculate_diffs, the loop over new_versions (the nested call passes no
\* catalog arguments)
RECURSIVE calculate_diffs_tree(_, _)
calculate_diffs_tree(old, new) ==
    LET sub_diff(key) ==
            calculate_diffs_tree(
                IF key \in DOMAIN old THEN old[key].dict ELSE EmptyDict, new[key].dict)
        changed == {key \in DOMAIN new :
                        IF IsDict(new[key]) THEN sub_diff(key) # EmptyDict
                        ELSE key \notin DOMAIN old \/ old[key] # new[key]}
    IN  [key \in changed |->
            IF IsDict(new[key]) THEN Dict(sub_diff(key)) ELSE new[key]]

(***************************************************************************)
(* SpecDiff: calculate_diffs without catalog filtering on bounded trees    *)
(***************************************************************************)
Patches == 0..MaxPatch
GpuMinors == {<<25, 3>>, <<25, 10>>}
OcpMinors == {<<4, 14>>, <<4, 15>>}

\* the dicts minor -> "minor.patch" over some of the minors
VersionDicts(minors) ==
    UNION {[ms -> Patches] : ms \in SUBSET minors}

PatchLeaves(d) == [m \in DOMAIN d |-> Leaf(Str(0, m \o <<d[m]>>))]

Digests == {Leaf(Str(0, <<"sha256", n>>)) : n \in 1..2}

\* snapshots and fetched trees: each of the three entries present or not
VersionTrees ==
    {[k \in ks |->
        IF k = VERSION_GPU_MAIN_LATEST THEN sha
        ELSE IF k = VERSION_GPU_OPERATOR THEN Dict(PatchLeaves(g))
        ELSE Dict(PatchLeaves(o))] :
        ks \in SUBSET {VERSION_GPU_MAIN_LATEST, VERSION_GPU_OPERATOR, VERSION_OCP},
        sha \in Digests, g \in VersionDicts(GpuMinors),
        o \in VersionDicts({<<4, 14>>})}

reconcilerIdle == fnIdle /\ runIdle /\ fetchIdle

InitDiff ==
    /\ old_versions \in VersionTrees
    /\ new_versions \in VersionTrees
    /\ diffs = <<>>
    /\ ocp_versions = <<>> /\ support_matrix = <<>> /\ check_catalog = FALSE
    /\ catalog = {} /\ gpu_diffs = <<>> /\ filtered_diffs = <<>>
    /\ gpu_catalog_entries = {} /\ tests_commands = {} /\ rejected_before = <<>>
    /\ catalog_request = <<>>
    /\ plannerIdle /\ helpersIdle /\ reconcilerIdle

CallCalculateDiffs ==
    /\ ~called
    /\ called' = TRUE
    /\ diffs' = calculate_diffs_tree(old_versions, new_versions)
    /\ UNCHANGED <<new_tests, existing_tests, limit, merged_tests>>
    /\ UNCHANGED <<runVars, otherVars, fetchVars>>
    /\ UNCHANGED <<old_versions, new_versions, ocp_versions, support_matrix,
                   check_catalog, catalog, gpu_diffs, filtered_diffs,
                   gpu_catalog_entries, tests_commands, rejected_before,
                   catalog_request>>
    /\ UNCHANGED <<plannerVars, helperVars>>

NextDiff == CallCalculateDiffs

SpecDiff == InitDiff /\ [][NextDiff]_vars

\* the leaves of a tree with their paths
LeavesOf(tree) ==
    {<<<<k>>, tree[k].leaf>> : k \in {j \in DOMAIN tree : ~IsDict(tree[j])}}
    \cup UNION {{<<<<k, m>>, tree[k].dict[m].leaf>> : m \in DOMAIN tree[k].dict} :
                    k \in {j \in DOMAIN tree : IsDict(tree[j])}}

(***************************************************************************)
(* C10: the diff holds leaf path p with value v exactly when new has v at  *)
(* p and old has no value or another value at p; hence no unchanged leaf   *)
(* and no entry for a leaf that old has and new has not.                   *)
(***************************************************************************)
C10_DiffCorrect ==
    called =>
        /\ LeavesOf(diffs) = LeavesOf(new_versions) \ LeavesOf(old_versions)
        /\ LeavesOf(diffs) \cap LeavesOf(old_versions) = {}
        /\ \A l \in LeavesOf(old_versions) :
                (\A n \in LeavesOf(new_versions) : n[1] # l[1])
                    => \A d \in LeavesOf(diffs) : d[1] # l[1]

\* a changed leaf, an unchanged leaf, a new leaf and a removed leaf at once
C10_Witness ==
    /\ called
    /\ LeavesOf(diffs) # {}
    /\ LeavesOf(new_versions) \cap LeavesOf(old_versions) # {}
    /\ \E l \in LeavesOf(old_versions) : \A n \in LeavesOf(new_versions) : n[1] # l[1]
    /\ \E d \in LeavesOf(diffs) : \E l \in LeavesOf(old_versions) :
            d[1] = l[1] /\ d[2] # l[2]
    /\ \E d \in LeavesOf(diffs) : \A l \in LeavesOf(old_versions) : d[1] # l[1]

(***************************************************************************)
(* update_versions: support matrix, catalog filter                         *)
(***************************************************************************)
get_ocp_support_config(ocp_version, matrix) ==
    LET ocp_support == DictGet(matrix, CONFIG_OPENSHIFT_SUPPORT, EmptyDict)
    IN  IF ocp_version \in DOMAIN ocp_support
        THEN ocp_support[ocp_version]
        ELSE DictGet(DictGet(matrix, CONFIG_DEFAULTS, EmptyDict),
                     CONFIG_UNLISTED_VERSIONS,
                     [k \in {CONFIG_STATUS} |-> STATUS_ACTIVE])

\* ocp_config.get(CONFIG_STATUS): None when the key is missing
StatusOf(ocp_config) == DictGet(ocp_config, CONFIG_STATUS, "None")

get_active_ocp_versions(ocp_releases, matrix) ==
    {ocp \in ocp_releases :
        StatusOf(get_ocp_support_config(ocp, matrix)) = STATUS_ACTIVE}

\* the entries are dicts with 'version' and 'ocp_version'
is_available_in_catalog_entries(catalog_entries, gpu_version, ocp_version) ==
    LET gpu_normalized == lstrip_v(gpu_version)
    IN  \E entry \in catalog_entries :
            /\ lstrip_v(entry.version) = gpu_normalized
            /\ entry.ocp_version = ocp_version

\* mutant of available_in_any: available for every active OCP version
available_in_all(gpu_catalog, gpu_full_version, active_ocp_versions) ==
    \A ocp \in active_ocp_versions :
        is_available_in_catalog_entries(gpu_catalog, gpu_full_version, ocp)

available_in_any(gpu_catalog, gpu_full_version, active_ocp_versions) ==
    \E ocp \in active_ocp_versions :
        is_available_in_catalog_entries(gpu_catalog, gpu_full_version, ocp)

\* mutant of filter_new_gpu_versions_by_catalog: the catalog is queried and
\* the versions are filtered whether or not a platform is active
filter_new_gpu_versions_always(diff, ocps, matrix, fetched) ==
    LET active_ocp_versions == get_active_ocp_versions(DOMAIN ocps, matrix)
    IN  IF diff = EmptyDict THEN <<diff, {}, None>>
        ELSE <<[gpu_version \in
                    {g \in DOMAIN diff :
                        available_in_any(fetched, diff[g].leaf, active_ocp_versions)}
                    |-> diff[gpu_version]],
               fetched,
               [gpu_versions |-> {diff[v].leaf : v \in DOMAIN diff},
                ocp_versions |-> active_ocp_versions]>>

\* fetched is what fetch_gpu_operator_catalog_entries returns for the request;
\* the result is the pair (filtered_diffs, gpu_catalog_entries), followed by
\* the arguments of the call of fetch_gpu_operator_catalog_entries (None when
\* the function returns before the call)
filter_new_gpu_versions_by_catalog(diff, ocps, matrix, fetched) ==
    LET active_ocp_versions == get_active_ocp_versions(DOMAIN ocps, matrix)
    IN  IF diff = EmptyDict THEN <<diff, {}, None>>
        ELSE IF active_ocp_versions = {} THEN <<diff, {}, None>>
        ELSE <<[gpu_version \in
                    {g \in DOMAIN diff :
                        available_in_any(fetched, diff[g].leaf, active_ocp_versions)}
                    |-> diff[gpu_version]],
               fetched,
               [gpu_versions |-> {diff[v].leaf : v \in DOMAIN diff},
                ocp_versions |-> active_ocp_versions]>>

(***************************************************************************)
(* SpecFilter: filter_new_gpu_versions_by_catalog on bounded inputs        *)
(***************************************************************************)
\* proposed component versions: minor -> full version, some written "v..."
ProposedDiffs ==
    UNION {{[m \in ms |-> Leaf(Str(nv[m], m \o <<1>>))] : nv \in [ms -> {0, 1}]} :
            ms \in SUBSET GpuMinors}

OcpDicts == {PatchLeaves(d) : d \in UNION {[ms -> {0}] : ms \in SUBSET OcpMinors}}

Config(status) == [k \in {CONFIG_STATUS} |-> status]

\* settings files: every version active by default; 4.14 in maintenance;
\* 4.14 and 4.15 in maintenance; unlisted versions in maintenance, 4.15 active
SupportMatrices ==
    {[k \in {CONFIG_DEFAULTS} |->
        [u \in {CONFIG_UNLISTED_VERSIONS} |-> Config(STATUS_ACTIVE)]],
     [k \in {CONFIG_OPENSHIFT_SUPPORT} |->
        [o \in {<<4, 14>>} |->
            [c \in {CONFIG_STATUS, CONFIG_PINNED_GPU_OPERATOR} |->
                IF c = CONFIG_STATUS THEN STATUS_MAINTENANCE ELSE [list |-> {<<25, 3>>}]]]],
     [k \in {CONFIG_OPENSHIFT_SUPPORT} |->
        [o \in OcpMinors |-> Config(STATUS_MAINTENANCE)]],
     [k \in {CONFIG_OPENSHIFT_SUPPORT, CONFIG_DEFAULTS} |->
        IF k = CONFIG_OPENSHIFT_SUPPORT
        THEN [o \in {<<4, 15>>} |-> Config(STATUS_ACTIVE)]
        ELSE [u \in {CONFIG_UNLISTED_VERSIONS} |-> Config(STATUS_MAINTENANCE)]]}

\* what the catalog can answer: the proposed versions, written with or
\* without a leading 'v', each for one OCP version
CatalogEntries ==
    {[version |-> Str(nv, m \o <<1>>), ocp_version |-> o] :
        nv \in {0, 1}, m \in GpuMinors, o \in OcpMinors}

CatalogAnswers == {c \in SUBSET CatalogEntries : Cardinality(c) <= MaxEntries}

InitFilter ==
    /\ gpu_diffs \in ProposedDiffs
    /\ ocp_versions \in OcpDicts
    /\ support_matrix \in SupportMatrices
    /\ catalog \in CatalogAnswers
    /\ filtered_diffs = <<>> /\ gpu_catalog_entries = {}
    /\ old_versions = <<>> /\ new_versions = <<>> /\ check_catalog = FALSE
    /\ diffs = <<>> /\ tests_commands = {} /\ rejected_before = <<>>
    /\ catalog_request = <<>>
    /\ plannerIdle /\ helpersIdle /\ reconcilerIdle

CallFilter ==
    /\ ~called
    /\ called' = TRUE
    /\ LET result == filter_new_gpu_versions_by_catalog(
                        gpu_diffs, ocp_versions, support_matrix, catalog)
       IN  /\ filtered_diffs' = result[1]
           /\ gpu_catalog_entries' = result[2]
           /\ catalog_request' = result[3]
    /\ UNCHANGED <<plannerVars, helperVars>>
    /\ UNCHANGED <<new_tests, existing_tests, limit, merged_tests>>
    /\ UNCHANGED <<runVars, otherVars, fetchVars>>
    /\ UNCHANGED <<old_versions, new_versions, ocp_versions, support_matrix,
                   check_catalog, catalog, gpu_diffs, diffs, tests_commands,
                   rejected_before>>

NextFilter == CallFilter

SpecFilter == InitFilter /\ [][NextFilter]_vars

\* the platform versions of the release list that the policy holds active
ActivePlatforms ==
    {o \in DOMAIN ocp_versions :
        LET listed == DictGet(support_matrix, CONFIG_OPENSHIFT_SUPPORT, <<>>)
            unlisted == DictGet(DictGet(support_matrix, CONFIG_DEFAULTS, <<>>),
                                CONFIG_UNLISTED_VERSIONS, Config(STATUS_ACTIVE))
            entry == IF o \in DOMAIN listed THEN listed[o] ELSE unlisted
        IN  CONFIG_STATUS \in DOMAIN entry /\ entry[CONFIG_STATUS] = STATUS_ACTIVE}

\* the catalog's answer names the version (whatever 'v' prefix) for platform o
Lists(entries, full_version, o) ==
    \E e \in entries : e.version.body = full_version.body /\ e.ocp_version = o

(***************************************************************************)
(* C8: with at least one active platform version, a proposed component     *)
(* version is kept exactly when the fetched catalog entries hold it for at *)
(* least one active platform version: one held for no active platform is   *)
(* not in the filtered diff, one held for a single active platform is.     *)
(***************************************************************************)
C8_CatalogAdmission ==
    (called /\ ActivePlatforms # {}) =>
        /\ DOMAIN filtered_diffs \subseteq DOMAIN gpu_diffs
        /\ \A g \in DOMAIN gpu_diffs :
            /\ g \in DOMAIN filtered_diffs
                <=> \E o \in ActivePlatforms : Lists(catalog, gpu_diffs[g].leaf, o)
            /\ g \in DOMAIN filtered_diffs => filtered_diffs[g] = gpu_diffs[g]

\* two active platforms, one proposed version held for only one of them and
\* kept, another held for none and dropped
C8_Witness ==
    /\ called
    /\ Cardinality(ActivePlatforms) = 2
    /\ \E g \in DOMAIN gpu_diffs :
        /\ g \in DOMAIN filtered_diffs
        /\ Cardinality({o \in ActivePlatforms : Lists(catalog, gpu_diffs[g].leaf, o)}) = 1
    /\ \E g \in DOMAIN gpu_diffs : g \notin DOMAIN filtered_diffs

(***************************************************************************)
(* C16: when no platform version of the release list is active, the filter *)
(* returns every proposed component version unchanged with an empty list   *)
(* of catalog entries and sends no request to the catalog; when nothing is *)
(* proposed it returns the empty proposal, again without a request.        *)
(***************************************************************************)
C16_FilterBypass ==
    (called /\ (ActivePlatforms = {} \/ gpu_diffs = EmptyDict)) =>
        /\ filtered_diffs = gpu_diffs
        /\ gpu_catalog_entries = {}
        /\ catalog_request = None

\* two versions are proposed, the release list holds maintenance platforms
\* only, and the catalog would have answered with an entry for one of them
C16_Witness ==
    /\ called
    /\ ocp_versions # EmptyDict /\ ActivePlatforms = {}
    /\ Cardinality(DOMAIN gpu_diffs) = 2
    /\ catalog # {}
    /\ \E g \in DOMAIN gpu_diffs :
        \A o \in DOMAIN ocp_versions : ~Lists(catalog, gpu_diffs[g].leaf, o)
    /\ filtered_diffs = gpu_diffs

(***************************************************************************)
(* update_versions: test matrix and main                                   *)
(***************************************************************************)
\* the decimal digits of a number, most significant first
RECURSIVE Digits(_)
Digits(n) == IF n < 10 THEN <<n>> ELSE Digits(n \div 10) \o <<n % 10>>

\* mutant of VersionLess: the version strings compared as text, every
\* component digit by digit ("4.10" before "4.9")
VersionLess_text(a, b) ==
    \E i \in 1..Min(Len(a), Len(b)) :
        /\ \A j \in 1..(i - 1) : a[j] = b[j]
        /\ LET x == Digits(a[i])
               y == Digits(b[i])
           IN  \/ \E k \in 1..Min(Len(x), Len(y)) :
                    x[k] < y[k] /\ \A l \in 1..(k - 1) : x[l] = y[l]
               \/ Len(x) < Len(y) /\ \A l \in 1..Len(x) : x[l] = y[l]

\* tuple(map(int, v.split('.'))) compared as Python compares tuples
VersionLess(a, b) ==
    \/ \E i \in 1..Min(Len(a), Len(b)) :
            a[i] < b[i] /\ \A j \in 1..(i - 1) : a[j] = b[j]
    \/ Len(a) < Len(b) /\ \A j \in 1..Len(a) : a[j] = b[j]

\* a list of the members of a set, each once: list(d.keys()), or the list a
\* comprehension builds from a list without repetitions
RECURSIVE ListOf(_)
ListOf(members) ==
    IF members = {} THEN <<>>
    ELSE LET first == CHOOSE m \in members : TRUE
         IN  <<first>> \o ListOf(members \ {first})

\* mutant of get_sorted_versions: the list as it was given
get_sorted_versions_as_given(versions) == versions

\* sorted() is stable: a version goes behind the versions that are not greater
RECURSIVE get_sorted_versions(_)
get_sorted_versions(versions) ==
    IF versions = <<>> THEN <<>>
    ELSE LET n == Len(versions)
             before == get_sorted_versions(SubSeq(versions, 1, n - 1))
             smaller == {i \in 1..(n - 1) : ~VersionLess(versions[n], before[i])}
         IN  SubSeq(before, 1, Cardinality(smaller)) \o <<versions[n]>>
                \o SubSeq(before, Cardinality(smaller) + 1, n - 1)

ValueError(message) == [raised |-> message]

get_latest_versions(versions, count) ==
    IF count <= 0 THEN ValueError("count must be positive")
    ELSE LET sorted_versions == get_sorted_versions(versions)
         IN  IF Len(sorted_versions) > count
             THEN SubSeq(sorted_versions, Len(sorted_versions) - count + 1,
                         Len(sorted_versions))
             ELSE sorted_versions

get_earliest_versions(versions, count) ==
    IF count <= 0 THEN ValueError("count must be positive")
    ELSE LET sorted_versions == get_sorted_versions(versions)
         IN  IF Len(sorted_versions) > count
             THEN SubSeq(sorted_versions, 1, count)
             ELSE sorted_versions

\* mutant of normalize_pinned_gpu_operator: a single string is not accepted
normalize_pinned_lists_only(pinned) ==
    IF "list" \in DOMAIN pinned THEN pinned.list ELSE {}

\* pinned is None (missing), a list, a str or something else
normalize_pinned_gpu_operator(pinned) ==
    IF "list" \in DOMAIN pinned THEN pinned.list
    ELSE IF "str" \in DOMAIN pinned THEN {pinned.str}
    ELSE {}

handle_master_bundle_changes(ocp_releases, matrix) ==
    LET active_ocp_versions == get_active_ocp_versions(ocp_releases, matrix)
    IN  {<<ocp_version, VERSION_MASTER, None>> :
            ocp_version \in Range(get_latest_versions(ListOf(active_ocp_versions), 1))
                            \cup Range(get_earliest_versions(ListOf(active_ocp_versions), 1))}

\* mutant of handle_ocp_version_changes: a platform minor that is not in the
\* release list ends the handler with no instruction at all
handle_ocp_version_changes_fatal(d, ocp_releases, gpu_releases, matrix) ==
    IF \E o \in DOMAIN DictGet(d, VERSION_OCP, Dict(EmptyDict)).dict :
            o \notin ocp_releases
    THEN {}
    ELSE UNION {LET ocp_config == get_ocp_support_config(ocp_version, matrix)
                IN  IF StatusOf(ocp_config) = STATUS_MAINTENANCE
                    THEN {<<ocp_version, pinned_gpu, None>> :
                            pinned_gpu \in
                                normalize_pinned_gpu_operator(
                                    DictGet(ocp_config, CONFIG_PINNED_GPU_OPERATOR, None))
                                \cap Range(gpu_releases)}
                    ELSE {<<ocp_version, gpu_version, None>> :
                            gpu_version \in Range(gpu_releases)} :
                ocp_version \in DOMAIN DictGet(d, VERSION_OCP, Dict(EmptyDict)).dict}

handle_ocp_version_changes(d, ocp_releases, gpu_releases, matrix) ==
    UNION {LET ocp_config == get_ocp_support_config(ocp_version, matrix)
           IN  IF ocp_version \notin ocp_releases THEN {}
               ELSE IF StatusOf(ocp_config) = STATUS_MAINTENANCE
               THEN {<<ocp_version, pinned_gpu, None>> :
                        pinned_gpu \in
                            normalize_pinned_gpu_operator(
                                DictGet(ocp_config, CONFIG_PINNED_GPU_OPERATOR, None))
                            \cap Range(gpu_releases)}
               ELSE {<<ocp_version, gpu_version, None>> :
                        gpu_version \in Range(gpu_releases)} :
           ocp_version \in DOMAIN DictGet(d, VERSION_OCP, Dict(EmptyDict)).dict}

(***************************************************************************)
(* Text.  A string that is written to the file of test triggers is the     *)
(* list of its characters, a character being its code point, which is what *)
(* sorted() compares.                                                      *)
(***************************************************************************)
Lower ==
    <<"a", "b", "c", "d", "e", "f", "g", "h", "i", "j", "k", "l", "m",
      "n", "o", "p", "q", "r", "s", "t", "u", "v", "w", "x", "y", "z">>
Upper ==
    <<"A", "B", "C", "D", "E", "F", "G", "H", "I", "J", "K", "L", "M",
      "N", "O", "P", "Q", "R", "S", "T", "U", "V", "W", "X", "Y", "Z">>
Numerals == <<"0", "1", "2", "3", "4", "5", "6", "7", "8", "9">>
Symbols == (" " :> 32) @@ ("#" :> 35) @@ ("-" :> 45) @@ ("." :> 46) @@ ("/" :> 47) @@ (":" :> 58)

\* ord(c)
Ord(c) ==
    IF c \in DOMAIN Symbols THEN Symbols[c]
    ELSE IF \E i \in DOMAIN Numerals : Numerals[i] = c
         THEN 47 + CHOOSE i \in DOMAIN Numerals : Numerals[i] = c
    ELSE IF \E i \in DOMAIN Lower : Lower[i] = c
         THEN 96 + CHOOSE i \in DOMAIN Lower : Lower[i] = c
         ELSE 64 + CHOOSE i \in DOMAIN Upper : Upper[i] = c

Chars(letters) == [i \in DOMAIN letters |-> Ord(letters[i])]

\* str(n) for a natural number
Decimal(n) == [i \in DOMAIN Digits(n) |-> 48 + Digits(n)[i]]

\* separator.join(components) for the numbers of a version
RECURSIVE Join(_, _)
Join(components, separator) ==
    IF components = <<>> THEN <<>>
    ELSE IF Len(components) = 1 THEN Decimal(components[1])
    ELSE Decimal(components[1]) \o Chars(<<separator>>) \o Join(Tail(components), separator)

\* the characters of a string that lstrip('v') is applied to
FullText(s) == [i \in 1..s.v |-> Ord("v")] \o Join(s.body, ".")

\* str < str: the first character that differs decides, a proper prefix is less
RECURSIVE StrLessFrom(_, _, _)
StrLessFrom(a, b, i) ==
    IF i > Len(b) THEN FALSE
    ELSE IF i > Len(a) THEN TRUE
    ELSE IF a[i] # b[i] THEN a[i] < b[i]
    ELSE StrLessFrom(a, b, i + 1)

StrLess(a, b) == StrLessFrom(a, b, 1)

\* sorted() of a set of strings
RECURSIVE sorted(_)
sorted(strings) ==
    IF strings = {} THEN <<>>
    ELSE LET first == CHOOSE a \in strings : \A b \in strings \ {a} : StrLess(a, b)
         IN  <<first>> \o sorted(strings \ {first})

\* the comment "# WARNING: GPU {gpu_full_version} not in {ocp_version} catalog"
Warning(gpu_full_version, ocp_version) ==
    Chars(<<"#", " ", "W", "A", "R", "N", "I", "N", "G", ":", " ", "G", "P", "U", " ">>)
        \o FullText(gpu_full_version)
        \o Chars(<<" ", "n", "o", "t", " ", "i", "n", " ">>)
        \o Join(ocp_version, ".")
        \o Chars(<<" ", "c", "a", "t", "a", "l", "o", "g">>)

\* mutant of handle_gpu_operator_changes: every platform of the release list
\* is tested, the maintenance ones as well
handle_gpu_operator_changes_all(d, ocp_releases, gpu_releases, matrix, entries) ==
    LET gpu_changes == DictGet(d, VERSION_GPU_OPERATOR, Dict(EmptyDict)).dict
    IN  {<<ocp_version, gpu_version,
           IF /\ entries # {}
              /\ ~is_available_in_catalog_entries(
                    entries, gpu_changes[gpu_version].leaf, ocp_version)
           THEN Warning(gpu_changes[gpu_version].leaf, ocp_version)
           ELSE None>> :
            ocp_version \in ocp_releases,
            gpu_version \in DOMAIN gpu_changes \cap Range(gpu_releases)}

handle_gpu_operator_changes(d, ocp_releases, gpu_releases, matrix, entries) ==
    LET active_ocp_versions == get_active_ocp_versions(ocp_releases, matrix)
        gpu_changes == DictGet(d, VERSION_GPU_OPERATOR, Dict(EmptyDict)).dict
    IN  {<<ocp_version, gpu_version,
           IF /\ entries # {}
              /\ ~is_available_in_catalog_entries(
                    entries, gpu_changes[gpu_version].leaf, ocp_version)
           THEN Warning(gpu_changes[gpu_version].leaf, ocp_version)
           ELSE None>> :
            ocp_version \in active_ocp_versions,
            gpu_version \in DOMAIN gpu_changes \cap Range(gpu_releases)}

create_tests_matrix(d, ocp_releases, gpu_releases, matrix, entries) ==
    (IF VERSION_GPU_MAIN_LATEST \in DOMAIN d
     THEN handle_master_bundle_changes(ocp_releases, matrix) ELSE {})
    \cup (IF VERSION_OCP \in DOMAIN d
          THEN handle_ocp_version_changes(d, ocp_releases, gpu_releases, matrix)
          ELSE {})
    \cup (IF VERSION_GPU_OPERATOR \in DOMAIN d
          THEN handle_gpu_operator_changes(d, ocp_releases, gpu_releases, matrix, entries)
          ELSE {})

\* mutant of version2suffix: the dots are kept
version2suffix_dotted(v) ==
    IF v = VERSION_MASTER THEN Chars(<<"m", "a", "s", "t", "e", "r">>)
    ELSE Join(v, ".") \o Chars(<<"-", "x">>)

\* "25.10" -> "25-10-x", "master" -> "master"
version2suffix(v) ==
    IF v = VERSION_MASTER THEN Chars(<<"m", "a", "s", "t", "e", "r">>)
    ELSE Join(v, "-") \o Chars(<<"-", "x">>)

\* "/test {ocp_version}-stable-nvidia-gpu-operator-e2e-{gpu_version}"
test_command_template(ocp_version, gpu_version) ==
    Chars(<<"/", "t", "e", "s", "t", " ">>)
        \o Join(ocp_version, ".")
        \o Chars(<<"-", "s", "t", "a", "b", "l", "e", "-", "n", "v", "i", "d", "i", "a",
                   "-", "g", "p", "u", "-", "o", "p", "e", "r", "a", "t", "o", "r",
                   "-", "e", "2", "e", "-">>)
        \o gpu_version

create_tests_commands(d, ocp_releases, gpu_releases, matrix, entries) ==
    LET tests == create_tests_matrix(d, ocp_releases, gpu_releases, matrix, entries)
    IN  {t[3] : t \in {u \in tests : u[3] # None}}
        \cup {test_command_template(t[1], version2suffix(t[2])) : t \in tests}

\* calculate_diffs with its catalog arguments; fetched is the catalog's answer
\* to the request the filter sends; the result is (diffs, gpu_catalog_entries),
\* followed by the request the filter sent (None when it sent none)
calculate_diffs(old, new, ocps, matrix, check, fetched) ==
    LET d == calculate_diffs_tree(old, new)
    IN  IF /\ check /\ VERSION_GPU_OPERATOR \in DOMAIN d
           /\ ocps # EmptyDict /\ matrix # EmptyDict
        THEN LET result == filter_new_gpu_versions_by_catalog(
                                d[VERSION_GPU_OPERATOR].dict, ocps, matrix, fetched)
             IN  IF result[1] # EmptyDict
                 THEN <<[d EXCEPT ![VERSION_GPU_OPERATOR] = Dict(result[1])],
                        result[2], result[3]>>
                 ELSE <<[k \in DOMAIN d \ {VERSION_GPU_OPERATOR} |-> d[k]],
                        result[2], result[3]>>
        ELSE <<d, {}, None>>

\* mutant of apply_diffs: a nested diff is not applied to an existing entry
apply_diffs_top_level(old, d) ==
    [key \in DOMAIN old \cup DOMAIN d |->
        IF key \notin DOMAIN d THEN old[key]
        ELSE IF IsDict(d[key]) /\ key \in DOMAIN old /\ IsDict(old[key])
        THEN old[key]
        ELSE d[key]]

\* mutant of apply_diffs: the diff is what is written
apply_diffs_diff_only(old, d) == d

\* mutant of apply_diffs: a nested diff takes the place of the existing entry
apply_diffs_replace(old, d) ==
    [key \in DOMAIN old \cup DOMAIN d |->
        IF key \notin DOMAIN d THEN old[key] ELSE d[key]]

RECURSIVE apply_diffs(_, _)
apply_diffs(old, d) ==
    [key \in DOMAIN old \cup DOMAIN d |->
        IF key \notin DOMAIN d THEN old[key]
        ELSE IF IsDict(d[key]) /\ key \in DOMAIN old /\ IsDict(old[key])
        THEN Dict(apply_diffs(old[key].dict, d[key].dict))
        ELSE d[key]]

(***************************************************************************)
(* SpecVersions: main of update_versions, run after run on the snapshot    *)
(* file; old_versions is the content of the file                           *)
(***************************************************************************)
TrackedMinors == {<<24, 6>>, <<25, 3>>, <<25, 10>>}

\* what the registry lists: for every minor its highest patch, .0 or .1
UpstreamGpu ==
    {PatchLeaves([m \in TrackedMinors |-> IF m = <<25, 3>> THEN 0 ELSE p[m]]) :
        p \in [TrackedMinors -> {0, 1}]}

UpstreamOcp ==
    {PatchLeaves([m \in OcpMinors |-> IF m = <<4, 14>> THEN 0 ELSE q]) : q \in {0, 1}}

\* the catalog's answers about the patch releases of the tracked minors
UpstreamCatalog ==
    {c \in SUBSET {[version |-> Str(0, <<24, 6, 1>>), ocp_version |-> <<4, 14>>],
                   [version |-> Str(0, <<24, 6, 1>>), ocp_version |-> <<4, 15>>],
                   [version |-> Str(0, <<25, 10, 1>>), ocp_version |-> <<4, 15>>]} :
        Cardinality(c) <= MaxEntries}

\* what one run fetches: the digest, the component versions, the platform
\* versions and the catalog's answer
Fetches ==
    {<<sha, gpu_versions, ocps, fetched>> :
        sha \in Digests, gpu_versions \in UpstreamGpu, ocps \in UpstreamOcp,
        fetched \in UpstreamCatalog}

\* the fetches in which the digest and the platform versions are those of the
\* first snapshot, and three in which they changed
SomeFetches ==
    {f \in Fetches :
        \/ f[1].leaf.body[2] = 1 /\ f[3][<<4, 15>>].leaf.body[3] = 0
        \/ f[4] = {} /\ \A m \in TrackedMinors : f[2][m].leaf.body[3] = 0}

Tree(sha, gpu_versions, ocps) ==
    [k \in {VERSION_GPU_MAIN_LATEST, VERSION_GPU_OPERATOR, VERSION_OCP} |->
        IF k = VERSION_GPU_MAIN_LATEST THEN sha
        ELSE IF k = VERSION_GPU_OPERATOR THEN Dict(gpu_versions)
        ELSE Dict(ocps)]

GpuOf(tree) == DictGet(tree, VERSION_GPU_OPERATOR, Dict(EmptyDict)).dict

InitVersions ==
    /\ old_versions =
        Tree(Leaf(Str(0, <<"sha256", 1>>)),
             PatchLeaves([m \in TrackedMinors |-> 0]),
             PatchLeaves([m \in OcpMinors |-> 0]))
    /\ support_matrix \in SupportMatrices \cup {EmptyDict}
    /\ check_catalog \in BOOLEAN
    /\ new_versions = <<>> /\ ocp_versions = <<>> /\ catalog = {}
    /\ gpu_diffs = <<>> /\ filtered_diffs = <<>> /\ gpu_catalog_entries = {}
    /\ diffs = <<>> /\ tests_commands = {} /\ rejected_before = <<>>
    /\ catalog_request = <<>>
    /\ plannerIdle /\ helpersIdle /\ reconcilerIdle

\* main: fetch, diff with catalog filtering, rewrite the file, plan the tests
RunMain ==
    /\ runs < MaxRuns
    /\ runs' = runs + 1
    /\ \E fetch \in SomeFetches :
        LET ocps == fetch[3]
            fetched == fetch[4]
            new == Tree(fetch[1], fetch[2], ocps)
            result == calculate_diffs(old_versions, new, ocps, support_matrix,
                                      check_catalog, fetched)
            final_versions == apply_diffs(old_versions, result[1])
            ocp_releases == DOMAIN ocps
            gpu_releases ==
                get_latest_versions(ListOf(DOMAIN final_versions[VERSION_GPU_OPERATOR].dict), 2)
        IN  /\ new_versions' = new
            /\ ocp_versions' = ocps
            /\ catalog' = fetched
            /\ gpu_diffs' = GpuOf(calculate_diffs_tree(old_versions, new))
            /\ diffs' = result[1]
            /\ gpu_catalog_entries' = result[2]
            /\ catalog_request' = result[3]
            /\ old_versions' = final_versions
            /\ tests_commands' =
                create_tests_commands(result[1], ocp_releases, gpu_releases,
                                      support_matrix, result[2])
            /\ rejected_before' =
                [g \in DOMAIN gpu_diffs \ DOMAIN GpuOf(diffs) |-> gpu_diffs[g]]
            /\ UNCHANGED <<support_matrix, check_catalog, filtered_diffs>>
            /\ UNCHANGED <<plannerVars, helperVars>>
            /\ UNCHANGED <<fnVars, otherVars, fetchVars>>
            /\ UNCHANGED <<data_file, existing_results, new_results,
                           bundle_result_limit>>

NextVersions == RunMain

SpecVersions == InitVersions /\ [][NextVersions]_vars

\* the component versions the last run proposed and the catalog filter dropped
RejectedNow == DOMAIN gpu_diffs \ DOMAIN GpuOf(diffs)

\* the two highest component minors of a snapshot
LatestTwo(tree) ==
    {g \in DOMAIN GpuOf(tree) :
        Cardinality({h \in DOMAIN GpuOf(tree) :
            h[1] > g[1] \/ (h[1] = g[1] /\ h[2] > g[2])}) < 2}

\* "/test {platform}-stable-nvidia-gpu-operator-e2e-{suffix}" for an
\* instruction: the suffix is master, or the component with hyphens and -x
TriggerLine(platform, component) ==
    Chars(<<"/", "t", "e", "s", "t", " ">>)
        \o Join(platform, ".")
        \o Chars(<<"-", "s", "t", "a", "b", "l", "e", "-", "n", "v", "i", "d", "i", "a",
                   "-", "g", "p", "u", "-", "o", "p", "e", "r", "a", "t", "o", "r",
                   "-", "e", "2", "e", "-">>)
        \o (IF component = VERSION_MASTER
            THEN Chars(<<"m", "a", "s", "t", "e", "r">>)
            ELSE Join(component, "-") \o Chars(<<"-", "x">>))

\* the Rule C instruction for component minor g on platform o
Instruction(o, g) == TriggerLine(o, g)

StillProposed(g) ==
    g \in DOMAIN GpuOf(new_versions) /\ GpuOf(new_versions)[g] = rejected_before[g]

ListedNow(g) ==
    \E o \in ActivePlatforms : Lists(catalog, rejected_before[g].leaf, o)

Admitted(g) ==
    /\ g \in DOMAIN GpuOf(diffs) /\ GpuOf(diffs)[g] = rejected_before[g]
    /\ g \in DOMAIN GpuOf(old_versions) /\ GpuOf(old_versions)[g] = rejected_before[g]

\* C9 as claimed: the retried version gets its Rule C instructions whenever
\* it is admitted
C9_RetryByOmission_AnyMinor ==
    check_catalog =>
        /\ \A g \in RejectedNow :
            g \notin DOMAIN GpuOf(old_versions) \/ GpuOf(old_versions)[g] # gpu_diffs[g]
        /\ \A g \in DOMAIN rejected_before :
            StillProposed(g) =>
                /\ g \in DOMAIN gpu_diffs /\ gpu_diffs[g] = rejected_before[g]
                /\ ListedNow(g) =>
                    /\ Admitted(g)
                    /\ \A o \in ActivePlatforms : Instruction(o, g) \in tests_commands

(***************************************************************************)
(* C9 (amended): with catalog checking on, a component version the filter  *)
(* rejected is not written to the snapshot, so while upstream proposes it  *)
(* it is in the computed diff of the next run; in the first later run in   *)
(* which the catalog lists it for an active platform it is admitted and    *)
(* written, and Rule C instructions are generated for it when its minor is *)
(* among the two latest component minors of the snapshot after the write.  *)
(***************************************************************************)
C9_RetryByOmission ==
    check_catalog =>
        /\ \A g \in RejectedNow :
            g \notin DOMAIN GpuOf(old_versions) \/ GpuOf(old_versions)[g] # gpu_diffs[g]
        /\ \A g \in DOMAIN rejected_before :
            StillProposed(g) =>
                /\ g \in DOMAIN gpu_diffs /\ gpu_diffs[g] = rejected_before[g]
                /\ ListedNow(g) =>
                    /\ Admitted(g)
                    /\ g \in LatestTwo(old_versions) =>
                        \A o \in ActivePlatforms : Instruction(o, g) \in tests_commands

\* a version rejected by the run before is proposed again, listed for one
\* active platform, admitted, written and scheduled by Rule C, while another
\* version is rejected by this run
C9_Witness ==
    /\ check_catalog
    /\ RejectedNow # {}
    /\ \E g \in DOMAIN rejected_before :
        /\ StillProposed(g) /\ ListedNow(g) /\ Admitted(g)
        /\ g \in LatestTwo(old_versions)
        /\ ActivePlatforms # {}
        /\ \A o \in ActivePlatforms : Instruction(o, g) \in tests_commands

(***************************************************************************)
(* SpecMatrix: create_tests_commands (and with it create_tests_matrix and  *)
(* its three handlers) on bounded arguments                                *)
(***************************************************************************)
PlannerOcp == {<<4, 9>>, <<4, 10>>, <<4, 14>>}

Maintenance(pinned) ==
    IF pinned = None THEN Config(STATUS_MAINTENANCE)
    ELSE [c \in {CONFIG_STATUS, CONFIG_PINNED_GPU_OPERATOR} |->
            IF c = CONFIG_STATUS THEN STATUS_MAINTENANCE ELSE pinned]

\* settings files: the empty one; every version active by default; every
\* version in maintenance, pinned by a string, by a list and not at all;
\* unlisted versions in maintenance and one listed version active; one
\* version in maintenance and no defaults
PlannerMatrices ==
    {EmptyDict,
     [k \in {CONFIG_OPENSHIFT_SUPPORT, CONFIG_DEFAULTS} |->
        IF k = CONFIG_OPENSHIFT_SUPPORT THEN EmptyDict
        ELSE [u \in {CONFIG_UNLISTED_VERSIONS} |-> Config(STATUS_ACTIVE)]],
     [k \in {CONFIG_OPENSHIFT_SUPPORT} |->
        [o \in PlannerOcp |->
            IF o = <<4, 9>> THEN Maintenance([str |-> <<25, 3>>])
            ELSE IF o = <<4, 10>> THEN Maintenance([list |-> {<<24, 6>>, <<25, 10>>}])
            ELSE Maintenance(None)]],
     [k \in {CONFIG_OPENSHIFT_SUPPORT, CONFIG_DEFAULTS} |->
        IF k = CONFIG_OPENSHIFT_SUPPORT
        THEN [o \in {<<4, 9>>, <<4, 10>>} |->
                IF o = <<4, 9>> THEN Maintenance([list |-> {<<24, 6>>, <<25, 10>>}])
                ELSE Config(STATUS_ACTIVE)]
        ELSE [u \in {CONFIG_UNLISTED_VERSIONS} |-> Config(STATUS_MAINTENANCE)]],
     [k \in {CONFIG_OPENSHIFT_SUPPORT} |->
        [o \in {<<4, 10>>} |-> Maintenance([str |-> <<25, 3>>])]]}

\* the diffs calculate_diffs can return: the digest or not, and up to two
\* changed platform minors and component minors (no key for no change)
PlannerDiffs ==
    {[k \in (IF sha THEN {VERSION_GPU_MAIN_LATEST} ELSE {})
            \cup (IF os = {} THEN {} ELSE {VERSION_OCP})
            \cup (IF gs = {} THEN {} ELSE {VERSION_GPU_OPERATOR}) |->
        IF k = VERSION_GPU_MAIN_LATEST THEN Leaf(Str(0, <<"sha256", 2>>))
        ELSE IF k = VERSION_OCP THEN Dict(PatchLeaves([o \in os |-> 1]))
        ELSE Dict(PatchLeaves([g \in gs |-> 1]))] :
        sha \in BOOLEAN,
        os \in {x \in SUBSET PlannerOcp : Cardinality(x) <= 2},
        gs \in {x \in SUBSET TrackedMinors : Cardinality(x) <= 2}}

\* the component release lists passed to the planner
PlannerGpuReleases ==
    {<<>>, <<<<25, 3>>>>, <<<<25, 3>>, <<25, 10>>>>, <<<<24, 6>>, <<25, 10>>>>,
     <<<<24, 6>>, <<25, 3>>, <<25, 10>>>>}

\* catalog entries passed to the planner: none, or some of them, one version
\* written with a leading 'v'
PlannerEntries ==
    {{},
     {[version |-> Str(0, <<25, 10, 1>>), ocp_version |-> <<4, 10>>]},
     {[version |-> Str(0, <<25, 10, 1>>), ocp_version |-> <<4, 10>>],
      [version |-> Str(1, <<25, 3, 1>>), ocp_version |-> <<4, 14>>]}}

InitMatrix ==
    /\ diffs \in PlannerDiffs
    /\ known_ocp_releases \in SUBSET PlannerOcp
    /\ known_gpu_releases \in PlannerGpuReleases
    /\ support_matrix \in PlannerMatrices
    /\ gpu_catalog_entries \in PlannerEntries
    /\ tests_matrix = {} /\ master_tests = {} /\ ocp_tests = {} /\ gpu_tests = {}
    /\ tests_commands = {} /\ tests_file = <<>>
    /\ old_versions = <<>> /\ new_versions = <<>> /\ ocp_versions = <<>>
    /\ check_catalog = FALSE /\ catalog = {} /\ gpu_diffs = <<>>
    /\ filtered_diffs = <<>> /\ rejected_before = <<>> /\ catalog_request = <<>>
    /\ helpersIdle /\ reconcilerIdle

CallCreateTestsCommands ==
    /\ ~called
    /\ called' = TRUE
    /\ master_tests' =
        IF VERSION_GPU_MAIN_LATEST \in DOMAIN diffs
        THEN handle_master_bundle_changes(known_ocp_releases, support_matrix)
        ELSE {}
    /\ ocp_tests' =
        IF VERSION_OCP \in DOMAIN diffs
        THEN handle_ocp_version_changes(diffs, known_ocp_releases,
                                        known_gpu_releases, support_matrix)
        ELSE {}
    /\ gpu_tests' =
        IF VERSION_GPU_OPERATOR \in DOMAIN diffs
        THEN handle_gpu_operator_changes(diffs, known_ocp_releases,
                                         known_gpu_releases, support_matrix,
                                         gpu_catalog_entries)
        ELSE {}
    /\ tests_matrix' =
        create_tests_matrix(diffs, known_ocp_releases, known_gpu_releases,
                            support_matrix, gpu_catalog_entries)
    /\ tests_commands' =
        create_tests_commands(diffs, known_ocp_releases, known_gpu_releases,
                              support_matrix, gpu_catalog_entries)
    /\ UNCHANGED <<known_ocp_releases, known_gpu_releases, tests_file>>
    /\ UNCHANGED <<new_tests, existing_tests, limit, merged_tests>>
    /\ UNCHANGED <<runVars, otherVars, fetchVars, helperVars>>
    /\ UNCHANGED <<old_versions, new_versions, ocp_versions, support_matrix,
                   check_catalog, catalog, gpu_diffs, filtered_diffs,
                   gpu_catalog_entries, diffs, rejected_before, catalog_request>>

NextMatrix == CallCreateTestsCommands

SpecMatrix == InitMatrix /\ [][NextMatrix]_vars

\* the support entry the policy gives platform minor o
EntryOf(o) ==
    LET listed == DictGet(support_matrix, CONFIG_OPENSHIFT_SUPPORT, <<>>)
        unlisted == DictGet(DictGet(support_matrix, CONFIG_DEFAULTS, <<>>),
                            CONFIG_UNLISTED_VERSIONS, Config(STATUS_ACTIVE))
    IN  IF o \in DOMAIN listed THEN listed[o] ELSE unlisted

HasStatus(o, status) ==
    CONFIG_STATUS \in DOMAIN EntryOf(o) /\ EntryOf(o)[CONFIG_STATUS] = status

\* the component minors pinned for platform minor o, however they are written
Pins(o) ==
    IF CONFIG_PINNED_GPU_OPERATOR \notin DOMAIN EntryOf(o) THEN {}
    ELSE LET pinned == EntryOf(o)[CONFIG_PINNED_GPU_OPERATOR]
         IN  IF "str" \in DOMAIN pinned THEN {pinned.str} ELSE pinned.list

\* the pins of platform minor o are written as kind "str" or "list"
PinnedAs(o, kind) ==
    /\ CONFIG_PINNED_GPU_OPERATOR \in DOMAIN EntryOf(o)
    /\ kind \in DOMAIN EntryOf(o)[CONFIG_PINNED_GPU_OPERATOR]

ChangedOcp ==
    IF VERSION_OCP \in DOMAIN diffs THEN DOMAIN diffs[VERSION_OCP].dict ELSE {}

ChangedGpu ==
    IF VERSION_GPU_OPERATOR \in DOMAIN diffs
    THEN DOMAIN diffs[VERSION_GPU_OPERATOR].dict ELSE {}

Shortlist == {known_gpu_releases[i] : i \in 1..Len(known_gpu_releases)}

ActiveKnown == {o \in known_ocp_releases : HasStatus(o, STATUS_ACTIVE)}

\* a.b is an earlier minor than c.d
Earlier(x, y) == x[1] < y[1] \/ (x[1] = y[1] /\ x[2] < y[2])

For(o, instructions) == {t \in instructions : t[1] = o}

(***************************************************************************)
(* C11: for a changed platform minor of the release list that is in        *)
(* maintenance, the instructions of Rule B, and of the whole planner, for  *)
(* that platform are exactly (platform, pin, no comment) for the pinned    *)
(* component minors that are in the component shortlist, whether the pins  *)
(* are written as one string or as a list; no pin, no instruction.         *)
(***************************************************************************)
C11_MaintenancePins ==
    called =>
        \A o \in ChangedOcp \cap known_ocp_releases :
            HasStatus(o, STATUS_MAINTENANCE) =>
                /\ For(o, ocp_tests) = {<<o, g, None>> : g \in Pins(o) \cap Shortlist}
                /\ For(o, tests_matrix) = For(o, ocp_tests)

\* two changed maintenance platforms at once: one pinned by a string, one by
\* a list of which one pin is outside the shortlist
C11_Witness ==
    /\ called
    /\ \E o \in ChangedOcp \cap known_ocp_releases :
        /\ HasStatus(o, STATUS_MAINTENANCE)
        /\ PinnedAs(o, "str")
        /\ Cardinality(For(o, tests_matrix)) = 1
    /\ \E o \in ChangedOcp \cap known_ocp_releases :
        /\ HasStatus(o, STATUS_MAINTENANCE)
        /\ PinnedAs(o, "list")
        /\ Pins(o) \ Shortlist # {}
        /\ Cardinality(For(o, tests_matrix)) = 1

\* the two latest of a set of minors
LatestTwoOf(minors) ==
    {g \in minors : Cardinality({h \in minors : Earlier(g, h)}) < 2}

(***************************************************************************)
(* C12: for a changed platform minor of the release list that is active,   *)
(* Rule B emits (platform, component, no comment) for the two latest       *)
(* minors of the component release list it is given and for no other, so   *)
(* never more than two instructions for the platform.                      *)
(***************************************************************************)
C12_ActiveLatestTwo ==
    called =>
        \A o \in ChangedOcp \cap known_ocp_releases :
            HasStatus(o, STATUS_ACTIVE) =>
                /\ For(o, ocp_tests) = {<<o, g, None>> : g \in LatestTwoOf(Shortlist)}
                /\ Cardinality(For(o, ocp_tests)) <= 2

\* the exact component version the diff gives minor g
FullVersion(g) == diffs[VERSION_GPU_OPERATOR].dict[g].leaf

(***************************************************************************)
(* C13: for a changed component minor that is in the component release     *)
(* list, Rule C emits exactly one instruction for every active platform of *)
(* the release list and none for a platform that is not active, a          *)
(* maintenance platform pinning that component included; the instruction   *)
(* carries the warning comment when catalog entries were passed (a         *)
(* non-empty list) and none of them names the exact component version for  *)
(* that platform, and no comment otherwise. Rule C emits nothing else, and *)
(* all of it is in the planner's result.                                   *)
(***************************************************************************)
C13_ComponentChange ==
    called =>
        /\ \A g \in ChangedGpu \cap Shortlist :
            \A o \in known_ocp_releases :
                LET emitted == {t \in gpu_tests : t[1] = o /\ t[2] = g}
                    comment ==
                        IF /\ gpu_catalog_entries # {}
                           /\ ~Lists(gpu_catalog_entries, FullVersion(g), o)
                        THEN Warning(FullVersion(g), o)
                        ELSE None
                IN  IF HasStatus(o, STATUS_ACTIVE)
                    THEN emitted = {<<o, g, comment>>}
                    ELSE emitted = {}
        /\ \A t \in gpu_tests :
            t[1] \in ActiveKnown /\ t[2] \in ChangedGpu \cap Shortlist
        /\ gpu_tests \subseteq tests_matrix

\* a changed component minor pinned by a known maintenance platform, tested
\* on one active platform with the warning and on another without it
C13_Witness ==
    /\ called
    /\ \E g \in ChangedGpu \cap Shortlist :
        /\ \E o \in known_ocp_releases :
            HasStatus(o, STATUS_MAINTENANCE) /\ g \in Pins(o)
        /\ \E o \in ActiveKnown : <<o, g, Warning(FullVersion(g), o)>> \in tests_matrix
        /\ \E o \in ActiveKnown : <<o, g, None>> \in gpu_tests

\* the active platforms of the release list with no earlier, no later one
OldestActive == {o \in ActiveKnown : \A p \in ActiveKnown : ~Earlier(p, o)}
NewestActive == {o \in ActiveKnown : \A p \in ActiveKnown : ~Earlier(o, p)}

(***************************************************************************)
(* C14: when the digest of the development bundle is in the diff, Rule A   *)
(* emits exactly (newest active platform, master, no comment) and (oldest  *)
(* active platform, master, no comment), newest and oldest among the       *)
(* active platforms of the release list in numeric order of the dotted     *)
(* components (4.9 before 4.10): one instruction when one platform is      *)
(* active, none when none is; these are the planner's only instructions    *)
(* for master.                                                             *)
(***************************************************************************)
C14_MasterBundle ==
    (called /\ VERSION_GPU_MAIN_LATEST \in DOMAIN diffs) =>
        /\ master_tests =
            {<<o, VERSION_MASTER, None>> : o \in OldestActive \cup NewestActive}
        /\ {t \in tests_matrix : t[2] = VERSION_MASTER} = master_tests
        /\ Cardinality(ActiveKnown) = 1 => Cardinality(master_tests) = 1
        /\ ActiveKnown = {} => master_tests = {}

\* 4.9, 4.10 and 4.14 are active, a maintenance platform aside or not: the
\* instructions are for 4.9 and 4.14
C14_Witness ==
    /\ called
    /\ VERSION_GPU_MAIN_LATEST \in DOMAIN diffs
    /\ ActiveKnown = {<<4, 9>>, <<4, 10>>, <<4, 14>>}
    /\ {<<<<4, 9>>, VERSION_MASTER, None>>,
        <<<<4, 14>>, VERSION_MASTER, None>>} \subseteq tests_matrix
    /\ Cardinality(master_tests) = 2

\* the diff without the platform minors and the component minors that are
\* not in the release lists
KnownDiff ==
    LET os == ChangedOcp \cap known_ocp_releases
        gs == ChangedGpu \cap Shortlist
    IN  [k \in (DOMAIN diffs \cap {VERSION_GPU_MAIN_LATEST})
                \cup (IF os = {} THEN {} ELSE {VERSION_OCP})
                \cup (IF gs = {} THEN {} ELSE {VERSION_GPU_OPERATOR}) |->
            IF k = VERSION_GPU_MAIN_LATEST THEN diffs[k]
            ELSE IF k = VERSION_OCP THEN Dict([o \in os |-> diffs[k].dict[o]])
            ELSE Dict([g \in gs |-> diffs[k].dict[g]])]

\* the settings without the pins that are not in the component shortlist
KnownPins ==
    LET Trim(entry) ==
            IF CONFIG_PINNED_GPU_OPERATOR \notin DOMAIN entry THEN entry
            ELSE [entry EXCEPT ![CONFIG_PINNED_GPU_OPERATOR] =
                    LET pinned == entry[CONFIG_PINNED_GPU_OPERATOR]
                    IN  IF "str" \in DOMAIN pinned
                        THEN (IF pinned.str \in Shortlist THEN pinned
                              ELSE [list |-> {}])
                        ELSE [list |-> pinned.list \cap Shortlist]]
    IN  IF CONFIG_OPENSHIFT_SUPPORT \notin DOMAIN support_matrix THEN support_matrix
        ELSE [support_matrix EXCEPT ![CONFIG_OPENSHIFT_SUPPORT] =
                [o \in DOMAIN support_matrix[CONFIG_OPENSHIFT_SUPPORT] |->
                    Trim(support_matrix[CONFIG_OPENSHIFT_SUPPORT][o])]]

(***************************************************************************)
(* C15: the planner's result is the union of what the three rules return   *)
(* and is empty for an empty diff; a platform minor of the diff that is    *)
(* not in the platform release list, a component minor of the diff that is *)
(* not in the component release list and a pin that is not in the          *)
(* component release list get no instruction, and the result is the one    *)
(* the planner returns for the diff and the settings without them.         *)
(***************************************************************************)
C15_SkipNotFatal ==
    called =>
        /\ tests_matrix = master_tests \cup ocp_tests \cup gpu_tests
        /\ diffs = EmptyDict => tests_matrix = {}
        /\ \A t \in tests_matrix :
            /\ t[1] \in known_ocp_releases
            /\ t[2] \in Shortlist \cup {VERSION_MASTER}
        /\ tests_matrix =
            create_tests_matrix(KnownDiff, known_ocp_releases, known_gpu_releases,
                                KnownPins, gpu_catalog_entries)

\* an unknown platform minor, an unknown component minor and an unknown pin
\* next to a known platform minor and a known component minor, and every
\* rule has emitted an instruction
C15_Witness ==
    /\ called
    /\ ChangedOcp \ known_ocp_releases # {}
    /\ ChangedGpu \ Shortlist # {}
    /\ \E o \in ChangedOcp \cap known_ocp_releases :
        HasStatus(o, STATUS_MAINTENANCE) /\ Pins(o) \ Shortlist # {}
            /\ Pins(o) \cap Shortlist # {}
    /\ master_tests # {} /\ ocp_tests # {} /\ gpu_tests # {}
    /\ KnownDiff # diffs /\ KnownPins # support_matrix

(***************************************************************************)
(* fetch_ci_data: from the files of a pull request to the batch            *)
(***************************************************************************)
\* what the bucket holds for one file of a build: not listed; listed, and
\* fetch_gcs_file_content raises HTTPError; listed with a content json.loads
\* or the lookup of "result" and "timestamp" rejects; a finished.json; the
\* text of a version file
NotListed == [kind |-> "not listed"]
Unavailable == [kind |-> "HTTPError"]
Malformed == [kind |-> "malformed"]
Finished(result, timestamp) ==
    [kind |-> "json", result |-> result, timestamp |-> timestamp]
Text(text) == [kind |-> "text", text |-> text]

Listed(file) == file.kind # "not listed"

\* the exception process_single_build ends with
Raised(exception) == [raised |-> exception]

\* filter_gpu_finished_files: the nested finished.json when there is one
preferred_file(files) == IF Listed(files.nested) THEN files.nested ELSE files.top_level

\* build_files_lookup: the builds with a finished.json or a version file, in
\* the order of sorted(all_builds)
all_builds(bucket, keys) ==
    SelectSeq(keys, LAMBDA key :
        \/ Listed(preferred_file(bucket[key]))
        \/ Listed(bucket[key].ocp) \/ Listed(bucket[key].gpu))

\* the groups ocp_version and gpu_version of TEST_RESULT_PATH_REGEX
ocp_version_of(job_name) == <<4, 14>>
gpu_suffix_of(job_name) ==
    IF job_name = BundleJob THEN Gpu(<<"master">>, "") ELSE Gpu(<<23, 9>>, "")

\* the TestResult, or the exception that leaves the function
process_single_build(key, files) ==
    LET finished_file == preferred_file(files)
        job_url == Url(key[1], key[2], key[3])
        dual == Listed(files.nested) /\ Listed(files.top_level)
    IN  IF ~Listed(finished_file) THEN Raised("KeyError")
        ELSE IF finished_file.kind = "HTTPError" THEN Raised("HTTPError")
        ELSE IF finished_file.kind = "malformed" THEN Raised("JSONDecodeError")
        ELSE IF dual /\ files.top_level.kind = "HTTPError" THEN Raised("HTTPError")
        ELSE IF dual /\ files.top_level.kind = "malformed" THEN Raised("JSONDecodeError")
        ELSE IF Listed(files.ocp) /\ Listed(files.gpu)
        THEN IF files.ocp.kind = "HTTPError" \/ files.gpu.kind = "HTTPError"
             THEN Raised("HTTPError")
             ELSE Test(files.ocp.text, files.gpu.text, finished_file.result,
                       job_url, finished_file.timestamp)
        ELSE Test(ocp_version_of(key[2]), gpu_suffix_of(key[2]),
                  finished_file.result, job_url, finished_file.timestamp)

\* the body of the loop of process_tests_for_pr after process_single_build
add_result(results, job_name, result) ==
    LET ocp_version == "4.14"
        current == DictGet(results, ocp_version,
                           [bundle_tests |-> <<>>, release_tests |-> <<>>,
                            job_history_links |-> {}])
        updated ==
            [current EXCEPT
                !.job_history_links = @ \cup {job_history_url(job_name)},
                !.bundle_tests =
                    IF job_name = BundleJob THEN Append(@, result) ELSE @,
                !.release_tests =
                    IF /\ job_name # BundleJob
                       /\ has_exact_versions(result)
                       /\ result.test_status # STATUS_ABORTED
                    THEN Append(@, result) ELSE @]
    IN  DictUpdate(results, [v \in {ocp_version} |-> updated])

(***************************************************************************)
(* SpecFetch: main for one pull request, build by build                    *)
(***************************************************************************)
\* the builds of the pull request as sorted(all_builds) orders them
SortedBuilds ==
    <<<<"123", ReleaseJob, "456">>, <<"123", BundleJob, "456">>,
      <<"123", BundleJob, "457">>>>

Files(top_level, nested, ocp, gpu) ==
    [top_level |-> top_level, nested |-> nested, ocp |-> ocp, gpu |-> gpu]

\* what the bucket can hold for a build of the job: nothing; all files; the
\* version files without finished.json; a finished.json that cannot be
\* fetched, or parsed; no version files; a version file that cannot be
\* fetched; a nested finished.json beside the top-level one, which is fine
\* or cannot be parsed
BuildFiles(job_name) ==
    LET ocp == Text(<<4, 14, 1>>)
        gpu == Text(IF job_name = BundleJob THEN Gpu(<<25, 3, 0>>, "(bundle)")
                    ELSE Gpu(<<23, 9, 0>>, ""))
    IN  {Files(NotListed, NotListed, NotListed, NotListed),
         Files(Finished(STATUS_SUCCESS, 1), NotListed, ocp, gpu),
         Files(NotListed, NotListed, ocp, gpu),
         Files(Unavailable, NotListed, ocp, gpu),
         Files(Malformed, NotListed, ocp, gpu),
         Files(Finished(STATUS_FAILURE, MaxTs), NotListed, NotListed, NotListed),
         Files(Finished(STATUS_SUCCESS, 1), NotListed, Unavailable, gpu),
         Files(Finished(STATUS_FAILURE, 1), Finished(STATUS_SUCCESS, 1), ocp, gpu),
         Files(Malformed, Finished(STATUS_SUCCESS, 1), ocp, gpu)}

InitFetch ==
    /\ gcs \in {bucket \in [Range(SortedBuilds) -> UNION {BuildFiles(j) : j \in {BundleJob, ReleaseJob}}] :
                    \A key \in Range(SortedBuilds) : bucket[key] \in BuildFiles(key[2])}
    /\ data_file \in InitialHistories
    /\ existing_results = data_file
    /\ new_results = EmptyDict
    /\ bundle_result_limit = None
    /\ runs = 0
    /\ builds_to_process = <<>>
    /\ results_by_ocp = EmptyDict
    /\ pc = "start"
    /\ fnIdle /\ otherIdle /\ versionsIdle

\* process_tests_for_pr up to its loop: fetch_pr_files,
\* filter_gpu_finished_files, build_files_lookup
ListBuilds ==
    /\ pc = "start"
    /\ builds_to_process' = all_builds(gcs, SortedBuilds)
    /\ pc' = "builds"
    /\ UNCHANGED <<gcs, results_by_ocp>>
    /\ UNCHANGED <<fnVars, runVars, otherVars, versionVars>>

\* a pass of the loop that would write what it has merged so far
ProcessBuild_write_through ==
    /\ pc = "builds"
    /\ builds_to_process # <<>>
    /\ LET key == Head(builds_to_process)
           result == process_single_build(key, gcs[key])
       IN  IF "raised" \in DOMAIN result
           THEN /\ pc' = "aborted"
                /\ UNCHANGED <<builds_to_process, results_by_ocp, data_file>>
           ELSE /\ results_by_ocp' = add_result(results_by_ocp, key[2], result)
                /\ builds_to_process' = Tail(builds_to_process)
                /\ data_file' = merge_and_save_results(results_by_ocp', existing_results,
                                                       bundle_result_limit)
                /\ pc' = pc
    /\ UNCHANGED <<gcs, existing_results, new_results, bundle_result_limit, runs>>
    /\ UNCHANGED <<fnVars, otherVars, versionVars>>

\* one pass of the loop of process_tests_for_pr; an exception leaves the loop,
\* process_tests_for_pr and main, nothing being written
ProcessBuild ==
    /\ pc = "builds"
    /\ builds_to_process # <<>>
    /\ LET key == Head(builds_to_process)
           result == process_single_build(key, gcs[key])
       IN  IF "raised" \in DOMAIN result
           THEN /\ pc' = "aborted"
                /\ UNCHANGED <<builds_to_process, results_by_ocp>>
           ELSE /\ results_by_ocp' = add_result(results_by_ocp, key[2], result)
                /\ builds_to_process' = Tail(builds_to_process)
                /\ pc' = pc
    /\ UNCHANGED gcs
    /\ UNCHANGED <<fnVars, runVars, otherVars, versionVars>>

\* main after process_tests_for_pr: merge_and_save_results
SaveResults ==
    /\ pc = "builds"
    /\ builds_to_process = <<>>
    /\ new_results' = results_by_ocp
    /\ data_file' = merge_and_save_results(results_by_ocp, existing_results,
                                           bundle_result_limit)
    /\ runs' = runs + 1
    /\ pc' = "saved"
    /\ UNCHANGED <<gcs, builds_to_process, results_by_ocp>>
    /\ UNCHANGED <<existing_results, bundle_result_limit>>
    /\ UNCHANGED <<fnVars, otherVars, versionVars>>

NextFetch == ListBuilds \/ ProcessBuild \/ SaveResults

SpecFetch == InitFetch /\ [][NextFetch]_vars

\* every file of the build that the run reads can be fetched and parsed, and
\* its finished.json is there
Readable(files) ==
    /\ preferred_file(files).kind = "json"
    /\ Listed(files.nested) => files.top_level.kind \in {"json", "not listed"}
    /\ (Listed(files.ocp) /\ Listed(files.gpu)) =>
            files.ocp.kind = "text" /\ files.gpu.kind = "text"

\* the build is in the batch: its observation, or for a release job without
\* exact versions its job history link
InBatch(key) ==
    /\ "4.14" \in DOMAIN new_results
    /\ job_history_url(key[2]) \in new_results["4.14"].job_history_links
    /\ key[2] = BundleJob =>
        \E t \in Range(new_results["4.14"].bundle_tests) : BuildKeyOf(t) = key

(***************************************************************************)
(* C20: a build whose finished.json or version file is missing, cannot be  *)
(* fetched or cannot be parsed does not end the run: the run reaches the   *)
(* merge, and the builds whose files are readable are in the merged batch. *)
(***************************************************************************)
C20_BuildFailuresNonFatal ==
    /\ pc # "aborted"
    /\ pc = "saved" =>
        \A key \in Range(SortedBuilds) :
            (Listed(preferred_file(gcs[key])) /\ Readable(gcs[key])) => InBatch(key)

(***************************************************************************)
(* main of fetch_ci_data as a whole: the baseline history is loaded, the   *)
(* builds are listed and processed, the batch is merged and written.  The  *)
(* loading of the baseline (open, json.load) and the listing of the bucket *)
(* (http_get_json, raise_for_status) can raise; nothing catches it.        *)
(***************************************************************************)
InitMain ==
    /\ gcs \in {bucket \in [Range(SortedBuilds) -> UNION {BuildFiles(j) : j \in {BundleJob, ReleaseJob}}] :
                    \A key \in Range(SortedBuilds) : bucket[key] \in BuildFiles(key[2])}
    /\ data_file \in InitialHistories
    /\ existing_results = EmptyDict
    /\ new_results = EmptyDict
    /\ bundle_result_limit = None
    /\ runs = 0
    /\ builds_to_process = <<>>
    /\ results_by_ocp = EmptyDict
    /\ pc = "load"
    /\ fnIdle /\ otherIdle /\ versionsIdle

\* main: the baseline file is opened and parsed
LoadBaseline ==
    /\ pc = "load"
    /\ existing_results' = data_file
    /\ pc' = "start"
    /\ UNCHANGED <<data_file, new_results, bundle_result_limit, runs>>
    /\ UNCHANGED <<gcs, builds_to_process, results_by_ocp>>
    /\ UNCHANGED <<fnVars, otherVars, versionVars>>

\* main: the baseline file is missing or is not JSON
LoadBaselineRaises ==
    /\ pc = "load"
    /\ pc' = "aborted"
    /\ UNCHANGED <<gcs, builds_to_process, results_by_ocp>>
    /\ UNCHANGED <<fnVars, runVars, otherVars, versionVars>>

\* fetch_pr_files: the listing of the bucket answers with an error status
ListBuildsRaises ==
    /\ pc = "start"
    /\ pc' = "aborted"
    /\ UNCHANGED <<gcs, builds_to_process, results_by_ocp>>
    /\ UNCHANGED <<fnVars, runVars, otherVars, versionVars>>

NextMain ==
    \/ LoadBaseline \/ LoadBaselineRaises
    \/ ListBuilds \/ ListBuildsRaises
    \/ ProcessBuild
    \/ SaveResults

SpecMain == InitMain /\ [][NextMain]_vars

\* the batch of all the builds of the pull request, as the run collects it
RECURSIVE batch_of(_, _)
batch_of(builds, results) ==
    IF builds = <<>> THEN results
    ELSE LET result == process_single_build(Head(builds), gcs[Head(builds)])
         IN  IF "raised" \in DOMAIN result THEN results
             ELSE batch_of(Tail(builds), add_result(results, Head(builds)[2], result))

(***************************************************************************)
(* C21: the output history file is written in one step only, the step that *)
(* ends the run, taken when the baseline is loaded and every build has     *)
(* been fetched, and it writes the merge of the whole batch into the whole *)
(* baseline; a step that aborts the run and every step before the last     *)
(* leave the file as it was.                                               *)
(***************************************************************************)
C21_AllOrNothingWrite ==
    [][(data_file' # data_file \/ runs' # runs) =>
            /\ pc = "builds" /\ pc' = "saved"
            /\ builds_to_process = <<>>
            /\ results_by_ocp = batch_of(all_builds(gcs, SortedBuilds), EmptyDict)
            /\ data_file' = merge_and_save_results(results_by_ocp, data_file,
                                                   bundle_result_limit)]_vars

\* a run that has collected results and then aborts, nothing written
C21_Witness ==
    /\ pc = "aborted"
    /\ results_by_ocp # EmptyDict
    /\ runs = 0

(***************************************************************************)
(* Catalog pagination: fetch_catalog_entries, one pass of its loop per     *)
(* step.  A catalog is its pages, each a list of entries, and the total it *)
(* reports in every answer; a page past the last one is answered with an   *)
(* empty list.  The total is whatever the catalog says: it need not be the *)
(* number of its entries.                                                  *)
(***************************************************************************)
MaxPages == 2
MaxPageLen == 2
MaxTotal == 3

PageGpuVersions == {<<25, 3, 1>>, <<25, 10, 1>>}
PageOcpVersions == {<<4, 14>>, <<4, 15>>}

\* what the catalog holds: 25.3.1 for 4.14, and v25.10.1 for 4.14
PageEntries ==
    {[version |-> Str(0, <<25, 3, 1>>), ocp_version |-> <<4, 14>>],
     [version |-> Str(1, <<25, 10, 1>>), ocp_version |-> <<4, 14>>]}

Catalogs ==
    [pages : SeqsUpTo(SeqsUpTo(PageEntries, MaxPageLen), MaxPages),
     total : 0..MaxTotal]

\* response.json() of the request for page number p: 'data' and 'total'
catalog_response(api, p) ==
    [data |-> IF p + 1 \in DOMAIN api.pages THEN api.pages[p + 1] ELSE <<>>,
     total |-> api.total]

\* mutant of should_stop_pagination: only the count is looked at
should_stop_pagination_count_only(found_combinations, expected_combinations, fetched_count, total_count) ==
    fetched_count >= total_count

should_stop_pagination(found_combinations, expected_combinations, fetched_count, total_count) ==
    IF Cardinality(found_combinations) = expected_combinations
    THEN TRUE
    ELSE fetched_count >= total_count

\* the set comprehension of fetch_catalog_entries over all_entries
found_in(fetched, gpu_versions, ocp_set) ==
    {<<lstrip_v(fetched[i].version), fetched[i].ocp_version>> :
        i \in {j \in DOMAIN fetched :
                /\ lstrip_v(fetched[j].version) \in gpu_versions
                /\ fetched[j].ocp_version \in ocp_set}}

InitPages ==
    /\ catalog_api \in Catalogs
    /\ normalized_gpu_versions \in
        {{}, {Str(0, <<25, 3, 1>>)}, {Str(0, <<25, 3, 1>>), Str(0, <<25, 10, 1>>)}}
    /\ ocp_versions_set \in {{}, {<<4, 14>>}, {<<4, 14>>, <<4, 15>>}}
    /\ page = 0
    /\ all_entries = <<>>
    /\ requested_pages = <<>>
    /\ paging = "requesting"
    /\ selectIdle /\ plannerIdle /\ reconcilerIdle
    /\ old_versions = <<>> /\ new_versions = <<>> /\ ocp_versions = <<>>
    /\ support_matrix = <<>> /\ check_catalog = FALSE /\ catalog = {}
    /\ gpu_diffs = <<>> /\ filtered_diffs = <<>> /\ gpu_catalog_entries = {}
    /\ diffs = <<>> /\ tests_commands = {} /\ rejected_before = <<>>
    /\ catalog_request = <<>>

\* one pass of the while loop
FetchPage ==
    /\ paging = "requesting"
    /\ requested_pages' = Append(requested_pages, page)
    /\ LET expected_combinations ==
               Cardinality(normalized_gpu_versions) * Cardinality(ocp_versions_set)
           data == catalog_response(catalog_api, page)
           fetched == all_entries \o data.data
       IN  IF data.data = <<>>
           THEN /\ paging' = "returned"
                /\ UNCHANGED <<page, all_entries>>
           ELSE /\ all_entries' = fetched
                /\ IF should_stop_pagination(
                          found_in(fetched, normalized_gpu_versions, ocp_versions_set),
                          expected_combinations, Len(fetched), data.total)
                   THEN paging' = "returned" /\ page' = page
                   ELSE paging' = paging /\ page' = page + 1
    /\ UNCHANGED <<catalog_api, normalized_gpu_versions, ocp_versions_set>>
    /\ UNCHANGED <<old_versions, new_versions, ocp_versions, support_matrix, check_catalog,
                   catalog, gpu_diffs, filtered_diffs, gpu_catalog_entries, diffs,
                   tests_commands, rejected_before, catalog_request>>
    /\ UNCHANGED <<selectVars, plannerVars, fnVars, runVars, otherVars, fetchVars>>

NextPages == FetchPage

SpecPages == InitPages /\ [][NextPages]_vars

\* the loop is never left waiting: a pass is taken while it has not returned
FairSpecPages == SpecPages /\ WF_vars(FetchPage)

\* the entries of the catalog's pages 0..p, in the order of the pages
RECURSIVE EntriesUpTo(_)
EntriesUpTo(p) ==
    IF p < 0 THEN <<>>
    ELSE EntriesUpTo(p - 1) \o catalog_response(catalog_api, p).data

Observed(p, v, o) ==
    \E i \in DOMAIN EntriesUpTo(p) :
        /\ EntriesUpTo(p)[i].version.body = v.body
        /\ EntriesUpTo(p)[i].ocp_version = o

\* one of the three reasons to stop holds at page p
StopsAt(p) ==
    \/ catalog_response(catalog_api, p).data = <<>>
    \/ \A v \in normalized_gpu_versions, o \in ocp_versions_set : Observed(p, v, o)
    \/ Len(EntriesUpTo(p)) >= catalog_api.total

PagesInOrder ==
    /\ \A i \in DOMAIN requested_pages : requested_pages[i] = i - 1
    /\ \A i \in DOMAIN requested_pages :
            i < Len(requested_pages) => ~StopsAt(requested_pages[i])
    /\ requested_pages # <<>> =>
            (paging = "returned" <=> StopsAt(requested_pages[Len(requested_pages)]))

(***************************************************************************)
(* C22: the pages are requested in the order 0, 1, 2, ...; no page is      *)
(* requested after a page at which every requested (version, platform)     *)
(* combination had been observed, or the entries fetched had reached the   *)
(* reported total, or that was empty; the loop returns exactly at the      *)
(* first such page, and it does return.                                    *)
(***************************************************************************)
C22_BoundedPagination == []PagesInOrder /\ <>(paging = "returned")

\* returned early: the combinations were all seen on the second page while
\* the catalog reports more entries than were fetched
C22_Witness ==
    /\ paging = "returned"
    /\ requested_pages = <<0, 1>>
    /\ normalized_gpu_versions # {} /\ ocp_versions_set # {}
    /\ Len(all_entries) < catalog_api.total
    /\ catalog_response(catalog_api, 1).data # <<>>

(***************************************************************************)
(* Selection of versions: get_latest_versions and get_earliest_versions    *)
(* on lists of up to MaxVersions version strings, repetitions and versions *)
(* of different lengths included, and counts from -1 to MaxCount.          *)
(***************************************************************************)
MaxVersions == 3
MaxCount == 3

SelectVersions == {<<1, 2>>, <<1, 9>>, <<1, 10>>, <<1, 2, 1>>}

InitSelect ==
    /\ given_versions \in SeqsUpTo(SelectVersions, MaxVersions)
    /\ given_count \in -1..MaxCount
    /\ latest_versions = <<>>
    /\ earliest_versions = <<>>
    /\ selecting = {}
    /\ pagesIdle /\ plannerIdle /\ reconcilerIdle
    /\ old_versions = <<>> /\ new_versions = <<>> /\ ocp_versions = <<>>
    /\ support_matrix = <<>> /\ check_catalog = FALSE /\ catalog = {}
    /\ gpu_diffs = <<>> /\ filtered_diffs = <<>> /\ gpu_catalog_entries = {}
    /\ diffs = <<>> /\ tests_commands = {} /\ rejected_before = <<>>
    /\ catalog_request = <<>>

selectRest ==
    <<pageVars, plannerVars, fnVars, runVars, otherVars, fetchVars,
      old_versions, new_versions, ocp_versions, support_matrix, check_catalog,
      catalog, gpu_diffs, filtered_diffs, gpu_catalog_entries, diffs,
      tests_commands, rejected_before, catalog_request>>

CallGetLatestVersions ==
    /\ "latest" \notin selecting
    /\ latest_versions' = get_latest_versions(given_versions, given_count)
    /\ selecting' = selecting \cup {"latest"}
    /\ UNCHANGED <<given_versions, given_count, earliest_versions>>
    /\ UNCHANGED selectRest

CallGetEarliestVersions ==
    /\ "earliest" \notin selecting
    /\ earliest_versions' = get_earliest_versions(given_versions, given_count)
    /\ selecting' = selecting \cup {"earliest"}
    /\ UNCHANGED <<given_versions, given_count, latest_versions>>
    /\ UNCHANGED selectRest

NextSelect == CallGetLatestVersions \/ CallGetEarliestVersions

SpecSelect == InitSelect /\ [][NextSelect]_vars

\* how often v occurs in the list
Occurrences(list, v) == Cardinality({i \in DOMAIN list : list[i] = v})

NonDescending(list) ==
    \A i, j \in DOMAIN list : i < j => ~VersionLess(list[j], list[i])

\* chosen holds min(n, length) of the versions of the list, each at most as
\* often as the list does, in ascending order
SelectionOf(chosen, list, n) ==
    /\ Len(chosen) = Min(n, Len(list))
    /\ \A v \in Range(chosen) : Occurrences(chosen, v) <= Occurrences(list, v)
    /\ NonDescending(chosen)

\* the versions of the list that chosen leaves out, or does not hold as often
LeftOut(chosen, list) ==
    {v \in Range(list) : Occurrences(chosen, v) < Occurrences(list, v)}

(***************************************************************************)
(* C23: for a count n >= 1 get_latest_versions returns min(n, length)      *)
(* versions of the list in ascending numeric order, none of them smaller   *)
(* than a version it leaves out, and get_earliest_versions returns         *)
(* min(n, length) versions in ascending order, none of them greater than a *)
(* version it leaves out; for n <= 0 both raise ValueError("count must be  *)
(* positive").                                                             *)
(***************************************************************************)
C23_LatestEarliest ==
    /\ ("latest" \in selecting /\ given_count >= 1) =>
            /\ SelectionOf(latest_versions, given_versions, given_count)
            /\ \A v \in Range(latest_versions), w \in LeftOut(latest_versions, given_versions) :
                    ~VersionLess(v, w)
    /\ ("earliest" \in selecting /\ given_count >= 1) =>
            /\ SelectionOf(earliest_versions, given_versions, given_count)
            /\ \A v \in Range(earliest_versions), w \in LeftOut(earliest_versions, given_versions) :
                    ~VersionLess(w, v)
    /\ ("latest" \in selecting /\ given_count <= 0) =>
            latest_versions = [raised |-> "count must be positive"]
    /\ ("earliest" \in selecting /\ given_count <= 0) =>
            earliest_versions = [raised |-> "count must be positive"]

\* three versions given out of order, one of them twice-digit, two asked for
C23_Witness ==
    /\ selecting = {"latest", "earliest"}
    /\ given_versions = <<<<1, 10>>, <<1, 2, 1>>, <<1, 9>>>>
    /\ given_count = 2
    /\ latest_versions = <<<<1, 9>>, <<1, 10>>>>
    /\ earliest_versions = <<<<1, 2, 1>>, <<1, 9>>>>

(***************************************************************************)
(* The file of test triggers: create_tests_commands followed by            *)
(* save_tests_commands, as at the end of main.                             *)
(***************************************************************************)
\* the lines written, each followed by a newline
save_tests_commands(commands) == sorted(commands)

InitCommands == InitMatrix

\* main from create_tests_commands on
WriteTestsCommands ==
    /\ ~called
    /\ called' = TRUE
    /\ tests_matrix' =
        create_tests_matrix(diffs, known_ocp_releases, known_gpu_releases,
                            support_matrix, gpu_catalog_entries)
    /\ tests_commands' =
        create_tests_commands(diffs, known_ocp_releases, known_gpu_releases,
                              support_matrix, gpu_catalog_entries)
    /\ tests_file' = save_tests_commands(tests_commands')
    /\ UNCHANGED <<known_ocp_releases, known_gpu_releases, master_tests, ocp_tests, gpu_tests>>
    /\ UNCHANGED <<new_tests, existing_tests, limit, merged_tests>>
    /\ UNCHANGED <<runVars, otherVars, fetchVars, helperVars>>
    /\ UNCHANGED <<old_versions, new_versions, ocp_versions, support_matrix,
                   check_catalog, catalog, gpu_diffs, filtered_diffs,
                   gpu_catalog_entries, diffs, rejected_before, catalog_request>>

NextCommands == WriteTestsCommands

SpecCommands == InitCommands /\ [][NextCommands]_vars

Comments == {t[3] : t \in {u \in tests_matrix : u[3] # None}}

(***************************************************************************)
(* C24: the lines of the file are the trigger lines of the planned         *)
(* instructions and their comments, each comment a line that begins with   *)
(* "#", and nothing else; no line occurs twice, and every line is less     *)
(* than the line after it in the order of strings.                         *)
(***************************************************************************)
C24_TriggerFile ==
    called =>
        /\ Range(tests_file) =
                {TriggerLine(t[1], t[2]) : t \in tests_matrix}
                    \cup Comments
        /\ \A c \in Comments : c[1] = 35
        /\ \A i, j \in DOMAIN tests_file : i < j => StrLess(tests_file[i], tests_file[j])

\* a file with a comment, a trigger for the development bundle, and triggers
\* for 4.9 and 4.10, which the order of strings puts the other way round
C24_Witness ==
    /\ called
    /\ Comments # {}
    /\ \E t \in tests_matrix : t[2] = VERSION_MASTER
    /\ \E i, j \in DOMAIN tests_file :
            /\ i < j
            /\ tests_file[i] = TriggerLine(<<4, 10>>, <<25, 10>>)
            /\ tests_file[j] = TriggerLine(<<4, 9>>, <<25, 10>>)

(***************************************************************************)
(* C25: every key of new that old does not have has an entry in the diff,  *)
(* whether its value in new is a leaf or a nested map, the empty map       *)
(* included.                                                               *)
(***************************************************************************)
C25_NewKeysReported ==
    called =>
        \A k \in DOMAIN new_versions \ DOMAIN old_versions : k \in DOMAIN diffs

\* the release_tests of a bucket of a history
ReleaseTestsOf(history, v) ==
    IF v \in DOMAIN history THEN DictGet(history[v], "release_tests", <<>>) ELSE <<>>

\* the bucket holds a SUCCESS for the version pair of t that is not older
SuccessKept(history, v, t) ==
    \E u \in Range(ReleaseTestsOf(history, v)) :
        /\ get_version_key(u) = get_version_key(t)
        /\ u.test_status = STATUS_SUCCESS
        /\ u.job_timestamp >= t.job_timestamp

(***************************************************************************)
(* C26: in every run, a release_tests entry of the history that is a       *)
(* SUCCESS is followed in the written history by a SUCCESS entry for the   *)
(* same (platform full version, component full version) pair in the same   *)
(* bucket, with a timestamp that is not smaller.                           *)
(***************************************************************************)
C26_SuccessSticky ==
    [][\A v \in DOMAIN data_file :
        \A t \in Range(ReleaseTestsOf(data_file, v)) :
            t.test_status = STATUS_SUCCESS => SuccessKept(data_file', v, t)]_vars

\* the second run brought a later FAILURE for a pair the first run had made a
\* SUCCESS, and the SUCCESS is still there
C26_Witness ==
    /\ runs = 2
    /\ \E t \in Range(ReleaseTestsOf(existing_results, "4.14")) :
        /\ t.test_status = STATUS_SUCCESS
        /\ \E n \in Range(ReleaseTestsOf(new_results, "4.14")) :
            /\ get_version_key(n) = get_version_key(t)
            /\ has_exact_versions(n)
            /\ n.test_status = STATUS_FAILURE
            /\ n.job_timestamp > t.job_timestamp
        /\ SuccessKept(data_file, "4.14", t)

(***************************************************************************)
(* SpecConverge: main of update_versions run again and again while the     *)
(* upstream listings stay as they are, on any snapshot file; the catalog,  *)
(* when it is asked, lists every component version for every platform.     *)
(***************************************************************************)
\* what the registries list: all three entries, the maps possibly empty
Listings ==
    {t \in VersionTrees :
        DOMAIN t = {VERSION_GPU_MAIN_LATEST, VERSION_GPU_OPERATOR, VERSION_OCP}}

AllListed ==
    {[version |-> Str(0, m \o <<p>>), ocp_version |-> o] :
        m \in GpuMinors, p \in Patches, o \in OcpMinors}

ActiveByDefault ==
    [k \in {CONFIG_DEFAULTS} |->
        [u \in {CONFIG_UNLISTED_VERSIONS} |-> Config(STATUS_ACTIVE)]]

InitConverge ==
    /\ old_versions \in VersionTrees
    /\ new_versions \in Listings
    /\ ocp_versions = new_versions[VERSION_OCP].dict
    /\ support_matrix \in {ActiveByDefault, EmptyDict}
    /\ check_catalog \in BOOLEAN
    /\ catalog = AllListed
    /\ gpu_diffs = <<>> /\ filtered_diffs = <<>> /\ gpu_catalog_entries = {}
    /\ diffs = <<>> /\ tests_commands = {} /\ rejected_before = <<>>
    /\ catalog_request = <<>>
    /\ plannerIdle /\ helpersIdle /\ reconcilerIdle

\* main with the listings of the run before; when the rewritten snapshot has
\* no component map, final_versions[VERSION_GPU_OPERATOR] raises KeyError
\* after the file is written and the run emits nothing
RunMainAgain ==
    /\ runs < MaxRuns
    /\ runs' = runs + 1
    /\ LET result == calculate_diffs(old_versions, new_versions, ocp_versions,
                                     support_matrix, check_catalog, catalog)
           final_versions == apply_diffs(old_versions, result[1])
       IN  /\ diffs' = result[1]
           /\ gpu_catalog_entries' = result[2]
           /\ catalog_request' = result[3]
           /\ old_versions' = final_versions
           /\ tests_commands' =
                IF VERSION_GPU_OPERATOR \in DOMAIN final_versions
                THEN create_tests_commands(
                        result[1], DOMAIN ocp_versions,
                        get_latest_versions(
                            ListOf(DOMAIN final_versions[VERSION_GPU_OPERATOR].dict), 2),
                        support_matrix, result[2])
                ELSE {}
    /\ UNCHANGED <<new_versions, ocp_versions, support_matrix, check_catalog, catalog,
                   gpu_diffs, filtered_diffs, rejected_before>>
    /\ UNCHANGED <<plannerVars, helperVars>>
    /\ UNCHANGED <<fnVars, otherVars, fetchVars>>
    /\ UNCHANGED <<data_file, existing_results, new_results, bundle_result_limit>>

NextConverge == RunMainAgain

SpecConverge == InitConverge /\ [][NextConverge]_vars

\* after a run the snapshot gives an empty diff against the same listings;
\* from the second run on the diff is empty and no test is emitted
Converged ==
    /\ runs >= 1 => calculate_diffs_tree(old_versions, new_versions) = EmptyDict
    /\ runs >= 2 => diffs = EmptyDict /\ tests_commands = {}

(***************************************************************************)
(* C27: with catalog filtering off, or on with every proposed version      *)
(* listed, the snapshot written by a run gives an empty diff against the   *)
(* listings it was computed from; a further run against the same listings  *)
(* computes an empty diff, leaves the snapshot as it is and emits no test  *)
(* instruction.                                                            *)
(***************************************************************************)
C27_ConvergesInOneRun ==
    []Converged /\ [][runs >= 1 => old_versions' = old_versions]_vars

\* a first run, with the catalog asked, that changed the digest and the
\* version of a component minor, emitted tests, and kept a minor that
\* upstream no longer lists
C27_Witness ==
    /\ runs = 1
    /\ check_catalog /\ catalog_request # None
    /\ VERSION_GPU_MAIN_LATEST \in DOMAIN diffs
    /\ VERSION_GPU_OPERATOR \in DOMAIN diffs
    /\ tests_commands # {}
    /\ DOMAIN GpuOf(old_versions) = GpuMinors
    /\ DOMAIN GpuOf(new_versions) = {<<25, 10>>}

(***************************************************************************)
(* SpecSnapshot: main of update_versions run after run while the upstream  *)
(* listings change: versions appear, change and disappear, and the catalog *)
(* lists some of the proposed versions, none, or all.                      *)
(***************************************************************************)
\* the snapshot file of the first run: some of the tracked component minors
SnapshotFiles ==
    {Tree(Leaf(Str(0, <<"sha256", 1>>)),
          PatchLeaves([m \in ms |-> 0]),
          PatchLeaves([m \in OcpMinors |-> 0])) : ms \in SUBSET TrackedMinors}

\* what a run finds upstream: 24.6.1 and 25.10.1 or nothing of these minors,
\* 25.3.0 or nothing of 25.3; both platforms with a new patch, or 4.15 alone
SnapshotGpuListings ==
    {PatchLeaves([m \in ms |-> IF m = <<25, 3>> THEN 0 ELSE 1]) :
        ms \in SUBSET TrackedMinors}

SnapshotOcpListings ==
    {PatchLeaves([m \in OcpMinors |-> 1]), PatchLeaves([m \in {<<4, 15>>} |-> 0])}

SnapshotCatalogs ==
    {{},
     {[version |-> Str(0, <<25, 10, 1>>), ocp_version |-> <<4, 15>>]},
     {[version |-> Str(0, <<24, 6, 1>>), ocp_version |-> <<4, 15>>],
      [version |-> Str(1, <<25, 10, 1>>), ocp_version |-> <<4, 15>>]}}

\* 4.14 in maintenance, pinned to 25.3 and 25.10; other platforms active
PinningMatrix ==
    [k \in {CONFIG_OPENSHIFT_SUPPORT} |->
        [o \in {<<4, 14>>} |->
            [c \in {CONFIG_STATUS, CONFIG_PINNED_GPU_OPERATOR} |->
                IF c = CONFIG_STATUS THEN STATUS_MAINTENANCE
                ELSE [list |-> {<<25, 3>>, <<25, 10>>}]]]]

InitSnapshot ==
    /\ old_versions \in SnapshotFiles
    /\ support_matrix \in {ActiveByDefault, PinningMatrix}
    /\ check_catalog \in BOOLEAN
    /\ new_versions = <<>> /\ ocp_versions = <<>> /\ catalog = {}
    /\ gpu_diffs = <<>> /\ filtered_diffs = <<>> /\ gpu_catalog_entries = {}
    /\ diffs = <<>> /\ tests_commands = {} /\ rejected_before = <<>>
    /\ catalog_request = <<>>
    /\ plannerIdle /\ helpersIdle /\ reconcilerIdle

\* mutant of gpu_releases_of: the latest two of what upstream lists
gpu_releases_of_listing(final_versions, listing) ==
    get_latest_versions(ListOf(DOMAIN listing[VERSION_GPU_OPERATOR].dict), 2)

\* main, line 368: the latest two component minors of the rewritten snapshot
gpu_releases_of(final_versions, listing) ==
    get_latest_versions(ListOf(DOMAIN final_versions[VERSION_GPU_OPERATOR].dict), 2)

RunUpdate ==
    /\ runs < MaxRuns
    /\ runs' = runs + 1
    /\ \E gpu_versions \in SnapshotGpuListings, ocps \in SnapshotOcpListings,
          fetched \in SnapshotCatalogs :
        LET new == Tree(Leaf(Str(0, <<"sha256", 2>>)), gpu_versions, ocps)
            result == calculate_diffs(old_versions, new, ocps, support_matrix,
                                      check_catalog, fetched)
            final_versions == apply_diffs(old_versions, result[1])
        IN  /\ new_versions' = new
            /\ ocp_versions' = ocps
            /\ catalog' = fetched
            /\ gpu_diffs' = GpuOf(calculate_diffs_tree(old_versions, new))
            /\ diffs' = result[1]
            /\ gpu_catalog_entries' = result[2]
            /\ catalog_request' = result[3]
            /\ old_versions' = final_versions
            /\ tests_commands' =
                create_tests_commands(result[1], DOMAIN ocps,
                                      gpu_releases_of(final_versions, new),
                                      support_matrix, result[2])
    /\ UNCHANGED <<support_matrix, check_catalog, filtered_diffs, rejected_before>>
    /\ UNCHANGED <<plannerVars, helperVars>>
    /\ UNCHANGED <<fnVars, otherVars, fetchVars>>
    /\ UNCHANGED <<data_file, existing_results, new_results, bundle_result_limit>>

NextSnapshot == RunUpdate

SpecSnapshot == InitSnapshot /\ [][NextSnapshot]_vars

(***************************************************************************)
(* C28: in every run, each leaf of the snapshot (the digest, a platform    *)
(* minor, a component minor) is in the rewritten snapshot at the same      *)
(* path, with the value it had or with the value the run's diff has for    *)
(* that path, whether upstream still lists it or not.                      *)
(***************************************************************************)
C28_SnapshotKeepsKeys ==
    [][\A l \in LeavesOf(old_versions) :
        \E k \in LeavesOf(old_versions') :
            /\ k[1] = l[1]
            /\ k[2] = l[2] \/ k \in LeavesOf(diffs')]_vars

\* after two runs the snapshot holds a component minor and a platform minor
\* that upstream did not list in the last run, and a minor written in it
C28_Witness ==
    /\ runs = 2
    /\ \E g \in DOMAIN GpuOf(old_versions) : g \notin DOMAIN GpuOf(new_versions)
    /\ <<4, 14>> \in DOMAIN old_versions[VERSION_OCP].dict
    /\ <<4, 14>> \notin DOMAIN ocp_versions
    /\ old_versions[VERSION_OCP].dict[<<4, 14>>] = Leaf(Str(0, <<4, 14, 1>>))
    /\ GpuOf(diffs) # EmptyDict

\* the component minors the catalog filter took out of the diff of the last
\* run and that the snapshot does not track
RejectedUntracked ==
    {g \in DOMAIN gpu_diffs \ DOMAIN GpuOf(diffs) : g \notin DOMAIN GpuOf(old_versions)}

(***************************************************************************)
(* C30: with catalog checking on, a component minor that the filter        *)
(* rejected in the run and that the snapshot does not track is the         *)
(* component of no test trigger the run emits, for any platform.           *)
(***************************************************************************)
C30_NoTestsForUntracked ==
    (check_catalog /\ runs >= 1) =>
        \A g \in RejectedUntracked, o \in OcpMinors :
            TriggerLine(o, g) \notin tests_commands

\* 25.10 is proposed, rejected and untracked while it is one of the two
\* latest minors upstream and a pin of 4.14; both platforms changed, and
\* the run emits tests for 25.3 on the maintenance and the active platform
C30_Witness ==
    /\ check_catalog
    /\ support_matrix = PinningMatrix
    /\ <<25, 10>> \in RejectedUntracked
    /\ VERSION_OCP \in DOMAIN diffs
    /\ DOMAIN diffs[VERSION_OCP].dict = OcpMinors
    /\ TriggerLine(<<4, 14>>, <<25, 3>>) \in tests_commands
    /\ TriggerLine(<<4, 15>>, <<25, 3>>) \in tests_commands

(***************************************************************************)
(* SpecStatus: create_tests_commands with settings files whose entries     *)
(* have a status that is neither 'active' nor 'maintenance', or no status  *)
(***************************************************************************)
\* settings files: 4.9 with another status, 4.10 with no status, 4.14
\* active; unlisted versions with another status and 4.14 in maintenance
\* with a pin; 4.9 with another status and a pin, the others active by
\* the built-in default; and one with the two known statuses only
StatusMatrices ==
    {[k \in {CONFIG_OPENSHIFT_SUPPORT} |->
        [o \in PlannerOcp |->
            IF o = <<4, 9>> THEN Config("deprecated")
            ELSE IF o = <<4, 10>> THEN EmptyDict
            ELSE Config(STATUS_ACTIVE)]],
     [k \in {CONFIG_OPENSHIFT_SUPPORT, CONFIG_DEFAULTS} |->
        IF k = CONFIG_OPENSHIFT_SUPPORT
        THEN [o \in {<<4, 14>>} |-> Maintenance([str |-> <<25, 3>>])]
        ELSE [u \in {CONFIG_UNLISTED_VERSIONS} |-> Config("deprecated")]],
     [k \in {CONFIG_OPENSHIFT_SUPPORT} |->
        [o \in {<<4, 9>>} |->
            [c \in {CONFIG_STATUS, CONFIG_PINNED_GPU_OPERATOR} |->
                IF c = CONFIG_STATUS THEN "deprecated" ELSE [str |-> <<25, 3>>]]]],
     [k \in {CONFIG_OPENSHIFT_SUPPORT} |->
        [o \in {<<4, 9>>, <<4, 10>>} |->
            IF o = <<4, 9>> THEN Maintenance([list |-> {<<24, 6>>, <<25, 10>>}])
            ELSE Config(STATUS_ACTIVE)]]}

InitStatus ==
    /\ diffs \in PlannerDiffs
    /\ known_ocp_releases \in SUBSET PlannerOcp
    /\ known_gpu_releases \in PlannerGpuReleases
    /\ support_matrix \in StatusMatrices
    /\ gpu_catalog_entries = {}
    /\ tests_matrix = {} /\ master_tests = {} /\ ocp_tests = {} /\ gpu_tests = {}
    /\ tests_commands = {} /\ tests_file = <<>>
    /\ old_versions = <<>> /\ new_versions = <<>> /\ ocp_versions = <<>>
    /\ check_catalog = FALSE /\ catalog = {} /\ gpu_diffs = <<>>
    /\ filtered_diffs = <<>> /\ rejected_before = <<>> /\ catalog_request = <<>>
    /\ helpersIdle /\ reconcilerIdle

NextStatus == CallCreateTestsCommands

SpecStatus == InitStatus /\ [][NextStatus]_vars

\* Rule B's active treatment of platform minor o: one instruction, with no
\* comment, for each release of the component shortlist
ActiveTreatment(o) == {<<o, g, None>> : g \in Shortlist}

(***************************************************************************)
(* C29: a changed platform minor of the release list gets Rule B's active  *)
(* treatment, one instruction per known component release, if and only if  *)
(* it is in the active platform list of Rules A and C, that is, if and     *)
(* only if the status of its support entry is 'active'; an entry with      *)
(* another status, or with none, is not active for any rule.  (The two     *)
(* treatments are the same set when every known component release is      *)
(* pinned, so the case is left out of the second half.)                    *)
(***************************************************************************)
C29_StatusConsistent ==
    called =>
        \A o \in ChangedOcp \cap known_ocp_releases :
            /\ o \in ActiveKnown => For(o, ocp_tests) = ActiveTreatment(o)
            /\ (o \notin ActiveKnown /\ ~(Shortlist \subseteq Pins(o)))
                    => For(o, ocp_tests) # ActiveTreatment(o)

====
